---- MODULE Spec2Model ----
(***************************************************************************)
(* A model of the message-agent host: the conversation mutex, the task     *)
(* manager with its typing keepalive and task store, the per-message       *)
(* pipeline of the agent service, and the segmented file history store.    *)
(*                                                                         *)
(* Three specifications share the variables:                               *)
(*   Spec         the host: inbound messages, the event loop, pipelines    *)
(*   SpecMutex    ConversationMutex under arbitrary clients                *)
(*   SpecHistory  FileHistoryStore under arbitrary addMessage/clear calls  *)
(***************************************************************************)
EXTENDS Integers, Sequences, FiniteSets, TLC

\* ------------------------------------------------------------------ bounds
\* Inbound messages the host receives in one run.
MaxMsgs == 2
\* Tool-call rounds one LLM dialogue may ask for before it answers in text.
MaxToolRounds == 1
\* SpecMutex: acquisitions one client performs.
MaxAcquires == 2
\* SpecHistory: appends in one run, largest configured segment size and
\* segment count, and the seconds the clock may advance.
MaxAppends == 5
MaxCfgSegmentBytes == 3
MaxCfgSegments == 2
MaxClock == 2
\* SpecHistoryCrash: addMessage calls cut short by the death of the process.
MaxCrashes == 1
\* SpecToolLoop: largest maxIterations a run is given, and tool calls the LLM
\* may put in one result.
MaxLoopIterations == 2
MaxCallsPerResult == 2
\* SpecRecovery: task files the dead process left under active/.
MaxOrphans == 2
\* SpecNotifier: configured notify targets.
MaxTargets == 3
\* SpecWatchdog: host processes one run spawns, and the ticks a host may take
\* to boot. Time is counted in ticks of about 7.5 s.
MaxSpawns == 3
MaxBoot == 3
\* The waits of the watchdog and its heartbeat timeout, in ticks.
GraceTicks == 2
KillWaitTicks == 1
TimeoutTicks == 2
\* SpecHeartbeat: registered channels.
MaxChannels == 2

\* --------------------------------------------------------- program constants
DefaultMaxSegmentSizeBytes == 524288
DefaultMaxSegments == 20
DefaultMaxMessages == 100
DefaultMaxIterations == 10

Convs == {"c1", "c2"}
Clients == {"a", "b", "c"}
Keys == {"k1", "k2"}
Contents == {"x", "yy"}
Roles == {"user", "assistant"}

None == "none"

VARIABLES
  \* ---- FileHistoryStore
  store,        \* conversation -> [index, files]: _index.json and the segment files
  storeCfg,     \* constructor arguments: maxSegmentSizeBytes, maxSegments
  now,          \* the wall clock, in whole seconds
  appends,      \* SpecHistory: addMessage calls made so far
  crashes,      \* SpecHistoryCrash: addMessage calls the process died in
  \* ---- ConversationMutex
  locks,        \* key -> chain of tickets whose chained promise is unresolved
  \* ---- SpecMutex clients
  cstate,       \* client -> "idle" | "waiting" | "holding"
  cticket,      \* client -> its current or last acquisition: key, ticket, release calls
  cacquired,    \* client -> acquisitions made so far
  \* ---- the host: channel handler, AgentService, TaskManager, TaskPersistence
  msgs,         \* the inbound messages handed to handleMessage so far, in order
  pc,           \* message -> where its async chain stands
  microtasks,   \* the job queue: messages whose continuation is ready, FIFO
  ticketNo,     \* message -> acquire calls made by its pipeline
  response,     \* message -> the pipeline's current response (generation number, 0: none)
  snapshot,     \* message -> the history the pipeline (or /retry) read
  toolRounds,   \* message -> tool-call rounds of its tool-use loop so far
  attempt,      \* message -> the verification loop's attempt counter
  maxRetries,   \* verification.maxRetries of the configuration
  taskStatus,   \* message -> task.status of the task submit created for it, or None
  activeTasks,  \* TaskManager.activeTasks: the task ids in the map
  typingIntervals, \* TaskManager.typingIntervals: the conversations with a timer
  activeDir,    \* tasks/active/: task id -> PersistedTask
  completedDir, \* tasks/completed/<date>/: task id -> PersistedTask
  lastResponses,\* AgentService.lastResponses: conversation -> response, or None
  errorReplies, \* message -> error replies sendErrorReply has dispatched for it
  errorSends,   \* message -> its error-reply send: None, "pending", "sent" or "failed"
  thrown,       \* message -> the error its pipeline rejected with, or None
  replySends,   \* message -> channel.sendMessage calls made with replyToMessageId
                \* set to its platformMessageId, error replies aside
  verCalls,     \* message -> calls its verification loop made: verify, regen
  rulesEnabled, \* verification.rules.enabled of the configuration
  journalEnabled, \* journal.enabled of the configuration
  journal,      \* JournalWriter: conversation -> the lines of its journal
  \* ---- SpecToolLoop: one activation of runToolLoop
  loopPc,       \* "start" | "chat" | "tools" | "final" | "returned" | "threw"
  maxIterations,\* the maxIterations argument
  iterations,   \* the local `iterations`
  currentMessages, \* the messages pushed onto the local `currentMessages`
  toolCalls,    \* the tool calls of the last result not yet executed
  llmCalls,     \* calls made so far: chat, complete (skill completions), ids handed out
  loopResult,   \* what the run returned or threw, or None
  \* ---- startup and supervision: TaskRecoveryService, RecoveryNotifier,
  \* ---- HeartbeatService, the watchdog process
  recovery,     \* recover(): pc, the tasks listActive returned, the index of the
                \* task in hand, the channel sends made
  notifier,     \* checkAndNotify(): pc, notifyTargets, the target in hand, sends
  eventFile,    \* the recovery-event file: None (absent) or its content
  watchdog,     \* the watchdog process: its clock, timers, tracker and checks
  hosts,        \* the host processes the watchdog spawned: pid -> its state
  heartbeat,    \* HeartbeatService: the channel statuses and the payload built
  heartbeatFile,\* heartbeat.json: None (absent) or its content
  \* ---- ChannelMonitor and the channel it watches
  monitor,      \* ChannelMonitor: its configuration, failureCounts entry, the
                \* reconnect attempts it started and how far each has come
  channel       \* BaseChannel.status of the channel

histVars == <<store, storeCfg, now, appends, crashes>>
mutexClientVars == <<cstate, cticket, cacquired>>
superVars == <<recovery, notifier, eventFile, watchdog, hosts, heartbeat, heartbeatFile, monitor,
               channel>>
hostVars == <<superVars, loopPc, maxIterations, iterations, currentMessages, toolCalls, llmCalls,
              loopResult, msgs, pc, microtasks, ticketNo, response, snapshot, toolRounds,
              attempt, maxRetries, taskStatus, activeTasks, typingIntervals, activeDir,
              completedDir, lastResponses, errorReplies, errorSends, thrown, verCalls,
              rulesEnabled, journalEnabled, journal, replySends>>
loopVars == <<loopPc, maxIterations, iterations, currentMessages, toolCalls, llmCalls,
             loopResult>>
vars == <<superVars, loopVars, store, storeCfg, now, appends, crashes, locks, cstate, cticket, cacquired, msgs, pc,
          microtasks, ticketNo, response, snapshot, toolRounds, attempt,
          maxRetries, taskStatus, activeTasks, typingIntervals, activeDir, completedDir,
          lastResponses, errorReplies, errorSends, thrown, verCalls, rulesEnabled,
          journalEnabled, journal, replySends>>

\* ------------------------------------------------------------ small helpers
Last(s) == s[Len(s)]

Tail1(s) == SubSeq(s, 2, Len(s))

IsPrefix(s, t) == Len(s) <= Len(t) /\ SubSeq(t, 1, Len(s)) = s

\* A function with one more point, or one point overwritten (a file written).
Put(f, k, v) == [x \in DOMAIN f \cup {k} |-> IF x = k THEN v ELSE f[x]]

\* A function without one point (a file unlinked).
Drop(f, k) == [x \in DOMAIN f \ {k} |-> f[x]]

NoFiles == [x \in {} |-> <<>>]

\* ===================================================== FileHistoryStore
EmptyIndex == [nextSeq |-> 1, segments |-> <<>>]

EmptyHistory == [index |-> EmptyIndex, files |-> NoFiles]

\* Bytes of the JSONL line of an entry: its content and the line terminator
\* (the fixed JSON framing is left out; thresholds in SpecHistory are scaled).
LineBytes(entry) == Len(entry.content) + 1

\* formatTimestampFilename: the clock to the second, so two calls within one
\* second return the same name.
formatTimestampFilename(t) == t

\* appendJsonLine: creates the file when missing, appends one line.
appendJsonLine(files, file, entry) ==
  Put(files, file, IF file \in DOMAIN files THEN Append(files[file], entry) ELSE <<entry>>)

\* The pruning loop of addMessage: while over the limit, shift the oldest
\* segment off the index and unlink its file.
RECURSIVE PruneSegments(_, _, _)
PruneSegments(segs, files, maxSegments) ==
  IF Len(segs) > maxSegments
  THEN PruneSegments(Tail1(segs), Drop(files, segs[1].file), maxSegments)
  ELSE [segments |-> segs, files |-> files]

NeedNewSegment(index, cfg) ==
  \/ index.segments = <<>>
  \/ Last(index.segments).sizeBytes >= cfg.maxSegmentSizeBytes

\* Mutant of NewSegment: a new segment is opened as if it were the first.
NewSegmentFromOne(t, seq) ==
  [file |-> formatTimestampFilename(t), firstSeq |-> 1, lastSeq |-> 1,
   count |-> 0, sizeBytes |-> 0]

NewSegment(t, seq) ==
  [file |-> formatTimestampFilename(t), firstSeq |-> seq, lastSeq |-> seq,
   count |-> 0, sizeBytes |-> 0]

\* Mutant of BumpNextSeq: nextSeq is left as read.
BumpNextSeqStale(n) == n

\* The nextSeq addMessage persists.
BumpNextSeq(n) == n + 1

\* Mutant of EntrySeq: every entry is numbered 1.
EntrySeqFirst(index) == 1

\* addMessage: the entry is numbered seq: index.nextSeq.
EntrySeq(index) == index.nextSeq

\* FileHistoryStore.addMessage on one conversation directory h.
AddMessage(h, cfg, t, msg) ==
  LET index == h.index
      entry == [seq |-> EntrySeq(index), role |-> msg.role, content |-> msg.content]
      segs1 == IF NeedNewSegment(index, cfg)
               THEN Append(index.segments, NewSegment(t, entry.seq))
               ELSE index.segments
      cur   == Last(segs1)
      files1 == appendJsonLine(h.files, cur.file, entry)
      segs2 == [segs1 EXCEPT ![Len(segs1)] =
                  [@ EXCEPT !.lastSeq = entry.seq,
                            !.count = @ + 1,
                            !.sizeBytes = @ + LineBytes(entry)]]
      pruned == PruneSegments(segs2, files1, cfg.maxSegments)
  IN [index |-> [nextSeq |-> BumpNextSeq(index.nextSeq), segments |-> pruned.segments],
      files |-> pruned.files]

\* addMessage cut short by the death of the process after appendJsonLine and
\* before writeIndex's rename: the line is in the segment file, the pruning
\* loop has run or not (pruned), and _index.json is as it was.
AddMessageCrashed(h, cfg, t, msg, pruned) ==
  LET index == h.index
      entry == [seq |-> EntrySeq(index), role |-> msg.role, content |-> msg.content]
      segs1 == IF NeedNewSegment(index, cfg)
               THEN Append(index.segments, NewSegment(t, entry.seq))
               ELSE index.segments
      files1 == appendJsonLine(h.files, Last(segs1).file, entry)
  IN [index |-> h.index,
      files |-> IF pruned THEN AddMessage(h, cfg, t, msg).files ELSE files1]

\* The files of the indexed segments, unlinked one by one.
RECURSIVE UnlinkAll(_, _)
UnlinkAll(segs, files) ==
  IF segs = <<>> THEN files
  ELSE UnlinkAll(Tail1(segs), Drop(files, segs[1].file))

\* FileHistoryStore.clear.
ClearHistory(h) ==
  [index |-> EmptyIndex, files |-> UnlinkAll(h.index.segments, h.files)]

\* readSegmentFile: the entries of a file in line order.
readSegmentFile(files, file) == files[file]

\* The loop of getMessages: segments newest first, whole files prepended,
\* until max entries are collected; missing files are skipped.
RECURSIVE Collect(_, _, _, _, _)
Collect(segs, files, i, max, collected) ==
  IF i < 1 \/ Len(collected) >= max THEN collected
  ELSE IF segs[i].file \notin DOMAIN files
       THEN Collect(segs, files, i - 1, max, collected)
       ELSE Collect(segs, files, i - 1, max,
                    readSegmentFile(files, segs[i].file) \o collected)

\* collected.slice(-max)
SliceLast(s, max) ==
  IF max = 0 THEN s
  ELSE IF Len(s) <= max THEN s ELSE SubSeq(s, Len(s) - max + 1, Len(s))

entryToChatMessage(entry) == [role |-> entry.role, content |-> entry.content]

\* FileHistoryStore.getMessages with an explicit limit: the entries read.
GetEntries(h, max) ==
  IF h.index.segments = <<>> THEN <<>>
  ELSE SliceLast(Collect(h.index.segments, h.files, Len(h.index.segments), max, <<>>), max)

\* Mutant of GetMessages: a read that misses the newest entry.
GetMessagesStale(h, max) ==
  LET es == GetEntries(h, max) IN
    [i \in 1..(IF es = <<>> THEN 0 ELSE Len(es) - 1) |-> entryToChatMessage(es[i])]

GetMessages(h, max) ==
  LET es == GetEntries(h, max) IN [i \in 1..Len(es) |-> entryToChatMessage(es[i])]

\* ===================================================== ConversationMutex
\* locks.get(key) is the tail of a promise chain: the promise chained for
\* ticket n resolves when the one before it has resolved and ticket n's
\* release handle has been called.  The model keeps, per key, the tickets
\* whose chained promise has not resolved yet, oldest first; a key with an
\* empty chain reads as Promise.resolve().

NoLocks == [k \in Keys \cup Convs |-> <<>>]

\* Mutant of MutexAcquire: the new ticket goes in front of the chain.
MutexAcquireFront(L, k, tk) == [L EXCEPT ![k] = <<[id |-> tk, released |-> FALSE]>> \o @]

\* acquire(key), up to the await: the new ticket is chained behind the tail.
MutexAcquire(L, k, tk) == [L EXCEPT ![k] = Append(@, [id |-> tk, released |-> FALSE])]

\* Mutant of MutexGranted: acquire returns without awaiting the earlier chain.
MutexGrantedNoAwait(L, k, tk) == \E i \in 1..Len(L[k]) : L[k][i].id = tk

\* `await existing` has returned for ticket tk: every earlier chained promise
\* has resolved.
MutexGranted(L, k, tk) == L[k] # <<>> /\ L[k][1].id = tk

\* Drop the resolved prefix: tickets released with nothing unresolved before.
RECURSIVE Settle(_)
Settle(chain) ==
  IF chain # <<>> /\ chain[1].released THEN Settle(Tail1(chain)) ELSE chain

\* Mutant of MutexRelease: every call resolves the oldest unresolved promise
\* of the key.
MutexReleaseOldest(L, k, tk) == [L EXCEPT ![k] = Tail1(@)]

\* The release handle of ticket tk: resolves its promise; calling it again,
\* or after the chain moved on, resolves nothing new.
MutexRelease(L, k, tk) ==
  [L EXCEPT ![k] =
     Settle([i \in 1..Len(@) |->
               IF @[i].id = tk THEN [@[i] EXCEPT !.released = TRUE] ELSE @[i]])]

\* ============================================================ initial states
MsgIds == 1..MaxMsgs

InitHistoryVars ==
  /\ store = [c \in Convs |-> EmptyHistory]
  /\ now = 0
  /\ appends = 0
  /\ crashes = 0

InitMutexVars ==
  /\ locks = NoLocks
  /\ cstate = [c \in Clients |-> "idle"]
  /\ cticket = [c \in Clients |-> [key |-> None, id |-> [owner |-> c, n |-> 0], calls |-> 0,
                                     threw |-> FALSE, order |-> 0]]
  /\ cacquired = [c \in Clients |-> 0]

\* The startup and supervision components before they have run.
RecoveryIdle == [pc |-> "idle", tasks |-> <<>>, next |-> 0, sent |-> <<>>]

NotifierIdle == [pc |-> "idle", targets |-> <<>>, idx |-> 0, sent |-> <<>>, existed |-> FALSE]

NoEventFile == [kind |-> "absent"]

NoHeartbeatFile == [kind |-> "absent", pid |-> 0, age |-> 0]

InitMonitorIdle == monitor = None /\ channel = "disconnected"

InitSuperVars ==
  /\ recovery = RecoveryIdle
  /\ notifier = NotifierIdle
  /\ eventFile = NoEventFile
  /\ watchdog = None
  /\ hosts = <<>>
  /\ heartbeat = None
  /\ heartbeatFile = NoHeartbeatFile
  /\ InitMonitorIdle

InitHostState ==
  /\ msgs = <<>>
  /\ pc = [i \in MsgIds |-> "idle"]
  /\ microtasks = <<>>
  /\ ticketNo = [i \in MsgIds |-> 0]
  /\ response = [i \in MsgIds |-> 0]
  /\ snapshot = [i \in MsgIds |-> <<>>]
  /\ toolRounds = [i \in MsgIds |-> 0]
  /\ attempt = [i \in MsgIds |-> 0]
  /\ taskStatus = [i \in MsgIds |-> None]
  /\ activeTasks = {}
  /\ typingIntervals = {}
  /\ completedDir = NoFiles
  /\ lastResponses = [c \in Convs |-> 0]
  /\ errorReplies = [i \in MsgIds |-> 0]
  /\ errorSends = [i \in MsgIds |-> None]
  /\ thrown = [i \in MsgIds |-> None]
  /\ verCalls = [i \in MsgIds |-> [verify |-> 0, regen |-> 0]]
  /\ journal = [c \in Convs |-> <<>>]
  /\ replySends = [i \in MsgIds |-> 0]
  /\ loopPc = "start"
  /\ iterations = 0
  /\ currentMessages = <<>>
  /\ toolCalls = <<>>
  /\ llmCalls = [chat |-> 0, complete |-> 0, ids |-> 0]
  /\ loopResult = None

InitHostVars == InitHostState /\ activeDir = NoFiles /\ InitSuperVars

\* ================================================================ SpecMutex
\* Clients that call acquire(k), wait for it to return, and invoke the release
\* handle they got, once or more, in any interleaving.
Ticket(owner, n) == [owner |-> owner, n |-> n]

ClientKey(c) == cticket[c].key

\* The acquire calls made so far; a ticket records which call it is.
CallsMade == cacquired["a"] + cacquired["b"] + cacquired["c"]

\* const release = await mutex.acquire(k), up to the await.
CAcquire(c, k) ==
  /\ cstate[c] = "idle"
  /\ cacquired[c] < MaxAcquires
  /\ locks' = MutexAcquire(locks, k, Ticket(c, cacquired[c] + 1))
  /\ cticket' = [cticket EXCEPT ![c] = [key |-> k, id |-> Ticket(c, cacquired[c] + 1),
                                         calls |-> 0, threw |-> FALSE,
                                         order |-> CallsMade + 1]]
  /\ cacquired' = [cacquired EXCEPT ![c] = @ + 1]
  /\ cstate' = [cstate EXCEPT ![c] = "waiting"]
  /\ UNCHANGED <<histVars, hostVars>>

\* acquire returns: the awaited promise has resolved.
CGrant(c) ==
  /\ cstate[c] = "waiting"
  /\ MutexGranted(locks, ClientKey(c), cticket[c].id)
  /\ cstate' = [cstate EXCEPT ![c] = "holding"]
  /\ UNCHANGED <<histVars, hostVars, locks, cticket, cacquired>>

\* release()
CRelease(c) ==
  /\ cstate[c] = "holding"
  /\ locks' = MutexRelease(locks, ClientKey(c), cticket[c].id)
  /\ cstate' = [cstate EXCEPT ![c] = "idle"]
  /\ cticket' = [cticket EXCEPT ![c].calls = 1]
  /\ UNCHANGED <<histVars, hostVars, cacquired>>

\* The history operation inside the held region throws: the finally block of
\* the region calls release() and the error goes on to the caller.
CRegionThrows(c) ==
  /\ cstate[c] = "holding"
  /\ locks' = MutexRelease(locks, ClientKey(c), cticket[c].id)
  /\ cstate' = [cstate EXCEPT ![c] = "idle"]
  /\ cticket' = [cticket EXCEPT ![c].calls = 1, ![c].threw = TRUE]
  /\ UNCHANGED <<histVars, hostVars, cacquired>>

\* release() called again on a handle that was already called.
CReleaseAgain(c) ==
  /\ cstate[c] = "idle"
  /\ cticket[c].calls = 1
  /\ locks' = MutexRelease(locks, ClientKey(c), cticket[c].id)
  /\ cticket' = [cticket EXCEPT ![c].calls = 2]
  /\ UNCHANGED <<histVars, hostVars, cstate, cacquired>>

InitMutex ==
  /\ InitHistoryVars /\ storeCfg = [maxSegmentSizeBytes |-> DefaultMaxSegmentSizeBytes,
                                     maxSegments |-> DefaultMaxSegments]
  /\ InitMutexVars
  /\ InitHostVars /\ maxRetries = 0 /\ maxIterations = DefaultMaxIterations
  /\ rulesEnabled = TRUE /\ journalEnabled = TRUE

NextMutex ==
  \/ \E c \in Clients, k \in Keys : CAcquire(c, k)
  \/ \E c \in Clients : CGrant(c)
  \/ \E c \in Clients : CRelease(c)
  \/ \E c \in Clients : CRegionThrows(c)
  \/ \E c \in Clients : CReleaseAgain(c)

SpecMutex == InitMutex /\ [][NextMutex]_vars

\* The clients that have been granted key k and have not released it.
Holders(k) == {c \in Clients : cstate[c] = "holding" /\ ClientKey(c) = k}

\* C1: for every key, at most one acquirer has been granted the key and has
\* not yet released it: no two mutex-held regions of one key overlap.
MutexExclusion == \A k \in Keys : Cardinality(Holders(k)) <= 1

\* C1 witness: one client holds a key while another waits for the same key
\* and a third holds a different key.
MutexExclusionWitness ==
  \E c, d, e \in Clients :
    /\ cstate[c] = "holding" /\ cstate[d] = "waiting" /\ cstate[e] = "holding"
    /\ ClientKey(c) = ClientKey(d) /\ ClientKey(e) # ClientKey(c)
    /\ cacquired[c] = 2

\* The tickets of key k whose chained promise has not resolved.
Chained(k) == {locks[k][i].id : i \in 1..Len(locks[k])}

\* C33: a second call of a release handle changes nothing (it admits no
\* waiter); a region that was left, by its end or by a throw, has its ticket
\* out of the chain of its key; and the oldest ticket of a chain belongs to a
\* client that holds the key or is about to be granted it, so an acquire made
\* after a region threw is granted like any other.
ReleaseIdempotentOnEveryPath ==
  /\ [][\A c \in Clients :
          cticket[c].calls = 1 /\ cticket'[c].calls = 2 => locks' = locks]_vars
  /\ [](\A c \in Clients :
          cstate[c] = "idle" /\ cticket[c].calls >= 1
            => cticket[c].id \notin Chained(ClientKey(c)))
  /\ [](\A k \in Keys :
          locks[k] # <<>>
            => \E c \in Clients : /\ cstate[c] \in {"waiting", "holding"}
                                 /\ ClientKey(c) = k
                                 /\ MutexGranted(locks, k, cticket[c].id))

\* C33 witness: a region of a key threw and its release handle was called a
\* second time, while another client, which acquired the key afterwards, holds
\* it and a third one waits for it.
ReleaseIdempotentOnEveryPathWitness ==
  \E c, d, e \in Clients :
    /\ cstate[c] = "idle" /\ cticket[c].threw /\ cticket[c].calls = 2
    /\ cstate[d] = "holding" /\ ClientKey(d) = ClientKey(c)
    /\ cstate[e] = "waiting" /\ ClientKey(e) = ClientKey(c)

\* The clients still in acquire(k), or in the region it opened, whose call came
\* before the one client c is in.
Ahead(c) ==
  {d \in Clients \ {c} : /\ cstate[d] # "idle" /\ ClientKey(d) = ClientKey(c)
                          /\ cticket[d].order < cticket[c].order}

\* C34: a client is granted its key only when no client whose acquire call on
\* the same key came earlier is still waiting or holding (FIFO), and a waiting
\* client with nobody ahead of it on its own key can be granted whatever the
\* other keys' holders and waiters do.
MutexFifoPerKey ==
  /\ [][\A c \in Clients :
          cstate[c] = "waiting" /\ cstate'[c] = "holding" => Ahead(c) = {}]_vars
  /\ [](\A c \in Clients :
          cstate[c] = "waiting" /\ Ahead(c) = {}
            => MutexGranted(locks, ClientKey(c), cticket[c].id))

\* C34 witness: the first caller of a key holds it, a later caller of the same
\* key waits, and a client that called last of all holds the other key.
MutexFifoPerKeyWitness ==
  \E c, d, e \in Clients :
    /\ cstate[c] = "holding" /\ cstate[d] = "waiting" /\ cstate[e] = "holding"
    /\ ClientKey(c) = ClientKey(d) /\ ClientKey(e) # ClientKey(c)
    /\ cticket[c].order < cticket[d].order /\ cticket[d].order < cticket[e].order
    /\ cacquired[d] = 2

\* ============================================================== SpecHistory
\* One conversation directory under arbitrary addMessage and clear calls, for
\* small configured limits, with a clock that may or may not advance between
\* two calls.
HConv == "c1"

HistoryConfigs ==
  {[maxSegmentSizeBytes |-> b, maxSegments |-> n] :
     b \in 1..MaxCfgSegmentBytes, n \in 1..MaxCfgSegments}

HAddMessage(role, content) ==
  /\ appends < MaxAppends
  /\ store' = [store EXCEPT ![HConv] =
                 AddMessage(@, storeCfg, now, [role |-> role, content |-> content])]
  /\ appends' = appends + 1
  /\ UNCHANGED <<storeCfg, now, crashes, locks, mutexClientVars, hostVars>>

\* An addMessage call during which the process dies; the store keeps no
\* state in memory, so the restarted process finds the directory as left.
HCrashInAddMessage(role, content, pruned) ==
  /\ appends < MaxAppends /\ crashes < MaxCrashes
  /\ crashes' = crashes + 1
  /\ store' = [store EXCEPT ![HConv] =
                 AddMessageCrashed(@, storeCfg, now, [role |-> role, content |-> content],
                                   pruned)]
  /\ appends' = appends + 1
  /\ UNCHANGED <<storeCfg, now, locks, mutexClientVars, hostVars>>

HClear ==
  /\ store' = [store EXCEPT ![HConv] = ClearHistory(@)]
  /\ UNCHANGED <<storeCfg, now, appends, crashes, locks, mutexClientVars, hostVars>>

HTick ==
  /\ now < MaxClock
  /\ now' = now + 1
  /\ UNCHANGED <<store, storeCfg, appends, crashes, locks, mutexClientVars, hostVars>>

InitHistory ==
  /\ InitHistoryVars /\ storeCfg \in HistoryConfigs
  /\ InitMutexVars
  /\ InitHostVars /\ maxRetries = 0 /\ maxIterations = DefaultMaxIterations
  /\ rulesEnabled = TRUE /\ journalEnabled = TRUE

NextHistory ==
  \/ \E r \in Roles, c \in Contents : HAddMessage(r, c)
  \/ HClear
  \/ HTick

SpecHistory == InitHistory /\ [][NextHistory]_vars

\* The same directory when the process may also die inside addMessage.
NextHistoryCrash ==
  \/ \E r \in Roles, c \in Contents : HAddMessage(r, c)
  \/ \E r \in Roles, c \in Contents, p \in BOOLEAN : HCrashInAddMessage(r, c, p)
  \/ HClear
  \/ HTick

SpecHistoryCrash == InitHistory /\ [][NextHistoryCrash]_vars

HIndex == store[HConv].index

\* C10: in the persisted index adjacent segments carry adjacent seq ranges
\* (segments[i].lastSeq + 1 = segments[i+1].firstSeq), and nextSeq is the last
\* segment's lastSeq + 1, or 1 when the index lists no segment.
IndexContiguous ==
  /\ \A i \in 1..(Len(HIndex.segments) - 1) :
        HIndex.segments[i].lastSeq + 1 = HIndex.segments[i + 1].firstSeq
  /\ HIndex.nextSeq = IF HIndex.segments = <<>> THEN 1
                      ELSE Last(HIndex.segments).lastSeq + 1

\* C10 witness: the index holds two segments after a rollover that evicted the
\* oldest segment (the first listed segment no longer starts at seq 1), and a
\* clear has happened before (fewer entries are numbered than were appended).
IndexContiguousWitness ==
  /\ Len(HIndex.segments) = 2
  /\ HIndex.segments[1].firstSeq > 1
  /\ HIndex.nextSeq <= appends

\* C11 as stated: the first listed segment starts at seq 1.
FirstSeqIsOne ==
  HIndex.segments # <<>> => HIndex.segments[1].firstSeq = 1

\* C11: the seq ranges the index lists are non-empty, each as long as the
\* segment's count, adjacent in ascending order and end at nextSeq - 1; the
\* first range starts at 1 unless the index is full (only a full index has
\* had its oldest segment evicted).
SeqRangesFromOldest ==
  HIndex.segments # <<>> =>
    /\ \A k \in 1..Len(HIndex.segments) :
         /\ HIndex.segments[k].firstSeq <= HIndex.segments[k].lastSeq
         /\ HIndex.segments[k].count =
              HIndex.segments[k].lastSeq - HIndex.segments[k].firstSeq + 1
    /\ \A k \in 1..(Len(HIndex.segments) - 1) :
         HIndex.segments[k + 1].firstSeq = HIndex.segments[k].lastSeq + 1
    /\ Last(HIndex.segments).lastSeq = HIndex.nextSeq - 1
    /\ \/ HIndex.segments[1].firstSeq = 1
       \/ Len(HIndex.segments) = storeCfg.maxSegments

\* A full index after an eviction whose oldest retained segment holds more
\* than one entry.
SeqRangesFromOldestWitness ==
  /\ Len(HIndex.segments) = storeCfg.maxSegments
  /\ HIndex.segments[1].firstSeq > 1
  /\ HIndex.segments[1].count > 1

\* What a full read of the conversation returns, entry by entry.
HEntries == GetEntries(store[HConv], DefaultMaxMessages)

\* The index names no file twice.
HFilesDistinct ==
  \A j, k \in 1..Len(HIndex.segments) :
    j # k => HIndex.segments[j].file # HIndex.segments[k].file

\* C12: whatever addMessage calls were cut short by a crash, a full read
\* returns strictly increasing seq values, all of them below the persisted
\* nextSeq (a line the index does not account for is not returned).
UnindexedLineInvisible ==
  HFilesDistinct =>
    /\ \A p, q \in 1..Len(HEntries) : p < q => HEntries[p].seq < HEntries[q].seq
    /\ \A p \in 1..Len(HEntries) : HEntries[p].seq < HIndex.nextSeq

\* C13: every addMessage(m) leaves the directory such that getMessages(1)
\* returns exactly [m], compared on role and content.
AppendThenReadOne ==
  [][appends' = appends + 1 /\ crashes' = crashes
     => \E r \in Roles, c \in Contents :
          /\ store'[HConv] =
               AddMessage(store[HConv], storeCfg, now, [role |-> r, content |-> c])
          /\ GetMessages(store'[HConv], 1) = <<[role |-> r, content |-> c]>>]_vars

\* ================================================================ the host
\* One registered channel; a conversation's mutex key is its conversation.
\* The event loop: a continuation made ready by an await joins the job queue
\* and runs when it is the head; I/O completions and inbound messages are
\* handled only when the job queue is empty.
Conv(i) == msgs[i].conv

Kind(i) == msgs[i].kind

\* message.id, as the channel minted it.
MessageId(i) == [ns |-> "msg", n |-> i]

\* submit: const taskId = randomUUID().
NewTaskId(i) == [ns |-> "task", n |-> i]

\* runPipeline: const taskId = message.id.
PipelineTaskId(i) == MessageId(i)

Ready(i) == microtasks # <<>> /\ Head(microtasks) = i

LoopIdle == microtasks = <<>>

\* The queue after its head ran and the continuations in `more` became ready.
Continue(more) == Tail1(microtasks) \o more

\* ---- TaskPersistence (enabled)
PersistedTask(id, conv) ==
  [id |-> id, conv |-> conv, channelId |-> "web", phase |-> "received", error |-> None,
   pendingResponse |-> 0]

Persist(active, id, conv) == Put(active, id, PersistedTask(id, conv))

\* updatePhase: pending = 0 stands for no pendingResponse in `extra`.
UpdatePhase(active, id, phase, pending) ==
  IF id \notin DOMAIN active THEN active
  ELSE Put(active, id, [active[id] EXCEPT
             !.phase = phase,
             !.pendingResponse = IF pending # 0 THEN pending ELSE @])

\* Mutant of Complete: the active file is copied and left in place.
CompleteNoUnlink(dirs, id) ==
  IF id \notin DOMAIN dirs.active THEN dirs
  ELSE [active |-> dirs.active, completed |-> Put(dirs.completed, id, dirs.active[id])]

\* complete: write under completed/, unlink the active file.
Complete(dirs, id) ==
  IF id \notin DOMAIN dirs.active THEN dirs
  ELSE [active |-> Drop(dirs.active, id),
        completed |-> Put(dirs.completed, id, dirs.active[id])]

\* Mutant of Fail: the task is moved without its phase and error being set.
FailUnmarked(dirs, id, error) == Complete(dirs, id)

\* fail: phase failed and the error on the active file, then complete.
Fail(dirs, id, error) ==
  IF id \notin DOMAIN dirs.active THEN dirs
  ELSE Complete([active |-> Put(dirs.active, id,
                                [dirs.active[id] EXCEPT !.phase = "failed", !.error = error]),
                 completed |-> dirs.completed], id)

Dirs == [active |-> activeDir, completed |-> completedDir]

\* ---- TaskManager
TaskConv(id) == Conv(id.n)

ensureTypingIndicator(timers, conv) == timers \cup {conv}

\* Mutant of cleanupTypingIfDone: the timer is cleared whatever else is active.
cleanupTypingAlways(timers, active, conv) == timers \ {conv}

cleanupTypingIfDone(timers, active, conv) ==
  IF \E t \in active : TaskConv(t) = conv THEN timers ELSE timers \ {conv}

\* ---- the mutex as the pipeline uses it
MyTicket(i) == Ticket(i, ticketNo[i])

\* The acquirer whose awaited promise the step from chain state L0 to L1 has
\* resolved: the owner of a ticket that has become the oldest unresolved one.
Woken(L0, L1, k) ==
  IF L1[k] # <<>> /\ (L0[k] = <<>> \/ L0[k][1].id # L1[k][1].id)
  THEN <<L1[k][1].id.owner>> ELSE <<>>

\* The positions at which a pipeline is parked in `await acquire(...)`.
WaitPcs == {"wait1", "wait2", "wait3"}

\* Caller i holds key k: the oldest unresolved ticket of k is i's, acquire has
\* returned it to i, and i has not called its release handle.
HoldsKey(L, P, i, k) ==
  /\ L[k] # <<>>
  /\ L[k][1].id.owner = i
  /\ ~L[k][1].released
  /\ P[i] \notin WaitPcs

UserText(i) == <<i>>

AssistantText(i, r) == <<i, r>>

\* The empty string as an LLM text (a response local is 0 before its first
\* assignment, too); the other texts are numbered by generation.
EmptyText == 0

\* The text of the generation that follows text r in the verification loop.
NextGeneration(r, a) == IF r = EmptyText THEN a + 2 ELSE r + 1

\* The taskId argument ''.
NoTaskId == [ns |-> "", n |-> 0]

JournalEntry(event, taskId, data) == [event |-> event, taskId |-> taskId, data |-> data]

\* JournalWriter.log, once per entry: a writer that is enabled appends each to
\* the journal of the conversation.
JournalLog(j, conv, entries) ==
  IF journalEnabled THEN [j EXCEPT ![conv] = @ \o entries] ELSE j

\* journal.log(event, taskId, message.channelId, message.conversationId) in
\* runPipeline and in the loops it calls.
PipelineLog(i, event, data) ==
  journal' = JournalLog(journal, Conv(i), <<JournalEntry(event, PipelineTaskId(i), data)>>)

\* What the composite verifier can return for a text: the completeness rule
\* of the rule verifier, which runs first, fails the empty text with REDO; the
\* LLM verifier passes only GOOD at or above the confidence threshold.
VerificationResults ==
  {[passed |-> TRUE, rating |-> "GOOD"], [passed |-> FALSE, rating |-> "GOOD"],
   [passed |-> FALSE, rating |-> "NEEDS_FIX"], [passed |-> FALSE, rating |-> "REDO"]}

Verify(text, rules) ==
  IF rules /\ text = EmptyText
  THEN {[passed |-> FALSE, rating |-> "REDO"]}
  ELSE VerificationResults

\* Mutant of RetriesLeft: the bound is compared with <=.
RetriesLeftInclusive(a, max) == a <= max

\* for (let attempt = 0; attempt < maxRetries; attempt++)
RetriesLeft(a, max) == a < max

\* Mutant of EventsAfterSend: the two events are journaled whatever the send did.
EventsAfterSendAlways(ok) == <<"response_sent", "task_completed">>

\* The events runPipeline journals once channel.sendMessage has settled: a
\* rejected send leaves runPipeline at the await.
EventsAfterSend(ok) == IF ok THEN <<"response_sent", "task_completed">> ELSE <<>>

fixedVars == <<superVars, loopVars, storeCfg, now, appends, crashes, cstate, cticket, cacquired, maxRetries,
               rulesEnabled, journalEnabled>>
locals == <<response, snapshot, toolRounds, attempt, thrown, verCalls>>
tmVars == <<taskStatus, activeTasks, typingIntervals>>
dirVars == <<activeDir, completedDir>>
errVars == <<errorReplies, errorSends, replySends>>
mxVars == <<locks, ticketNo>>

\* Mutant of RepliesSent: the reply is sent twice.
RepliesSentTwice(n) == n + 2

\* channel.sendMessage(conversationId, {text, replyToMessageId:
\* message.platformMessageId}): one call.
RepliesSent(n) == n + 1

\* ---- handleMessage, up to its first await
InboundNormal(conv) ==
  /\ LoopIdle /\ Len(msgs) < MaxMsgs
  /\ msgs' = Append(msgs, [conv |-> conv, kind |-> "normal"])
  /\ pc' = [pc EXCEPT ![Len(msgs) + 1] = "dispatch"]
  /\ microtasks' = <<Len(msgs) + 1>>
  /\ UNCHANGED <<journal, fixedVars, locals, tmVars, dirVars, errVars, mxVars, store,
                 lastResponses>>

\* /clear: dispatch runs the builtin, whose historyStore.clear call completes
\* before the first await.
InboundClear(conv) ==
  /\ LoopIdle /\ Len(msgs) < MaxMsgs
  /\ msgs' = Append(msgs, [conv |-> conv, kind |-> "clear"])
  /\ store' = [store EXCEPT ![conv] = ClearHistory(@)]
  /\ pc' = [pc EXCEPT ![Len(msgs) + 1] = "builtinReply"]
  /\ microtasks' = <<Len(msgs) + 1>>
  /\ UNCHANGED <<journal, fixedVars, locals, tmVars, dirVars, errVars, mxVars, lastResponses>>

\* /retry: without a last response it answers at once; otherwise it reads the
\* history before its first await.
InboundRetry(conv) ==
  LET i == Len(msgs) + 1 IN
  /\ LoopIdle /\ Len(msgs) < MaxMsgs
  /\ msgs' = Append(msgs, [conv |-> conv, kind |-> "retry"])
  /\ microtasks' = <<i>>
  /\ IF lastResponses[conv] = 0
     THEN /\ pc' = [pc EXCEPT ![i] = "builtinReply"]
          /\ UNCHANGED <<response, snapshot>>
     ELSE /\ pc' = [pc EXCEPT ![i] = "retryFind"]
          /\ response' = [response EXCEPT ![i] = lastResponses[conv]]
          /\ snapshot' = [snapshot EXCEPT ![i] = GetMessages(store[conv], DefaultMaxMessages)]
  /\ UNCHANGED <<journal, fixedVars, toolRounds, attempt, thrown, verCalls, tmVars, dirVars,
                 errVars, mxVars, store, lastResponses>>

\* ---- handleMessage after dispatch: TaskManager.submit, and runPipeline up to
\* its first await (updatePhase 'history_written').
Submit(i) ==
  /\ Ready(i) /\ pc[i] = "dispatch"
  /\ taskStatus' = [taskStatus EXCEPT ![i] = "running"]
  /\ activeTasks' = activeTasks \cup {NewTaskId(i)}
  /\ typingIntervals' = ensureTypingIndicator(typingIntervals, Conv(i))
  /\ activeDir' = UpdatePhase(Persist(activeDir, NewTaskId(i), Conv(i)),
                              PipelineTaskId(i), "history_written", 0)
  /\ PipelineLog(i, "pipeline_started", <<>>)
  /\ pc' = [pc EXCEPT ![i] = "acquire1"]
  /\ microtasks' = Continue(<<i>>)
  /\ UNCHANGED <<fixedVars, msgs, locals, completedDir, errVars, mxVars, store,
                 lastResponses>>

\* release = await this.historyMutex.acquire(mutexKey), up to the await.
AcquireAt(i, from, to) ==
  LET tk == Ticket(i, ticketNo[i] + 1)
      L  == MutexAcquire(locks, Conv(i), tk)
  IN /\ Ready(i) /\ pc[i] = from
     /\ locks' = L
     /\ ticketNo' = [ticketNo EXCEPT ![i] = @ + 1]
     /\ pc' = [pc EXCEPT ![i] = to]
     /\ microtasks' = Continue(Woken(locks, L, Conv(i)))
     /\ UNCHANGED <<journal, fixedVars, msgs, locals, tmVars, dirVars, errVars, store,
                    lastResponses>>

Acquire1(i) == AcquireAt(i, "acquire1", "wait1")

\* acquire returned; addMessage(user) runs to completion before the await on it.
AppendUser(i) ==
  /\ Ready(i) /\ pc[i] = "wait1"
  /\ MutexGranted(locks, Conv(i), MyTicket(i))
  /\ store' = [store EXCEPT ![Conv(i)] =
                 AddMessage(@, storeCfg, now, [role |-> "user", content |-> UserText(i)])]
  /\ pc' = [pc EXCEPT ![i] = "added1"]
  /\ microtasks' = Continue(<<i>>)
  /\ UNCHANGED <<journal, fixedVars, msgs, locals, tmVars, dirVars, errVars, mxVars, lastResponses>>

\* Mutant of ReleaseAfterAppend: the handle is not called after the append.
ReleaseAfterAppendSkipped(L, i) == L

\* finally { release() } after the user append.
ReleaseAfterAppend(L, i) == MutexRelease(L, Conv(i), MyTicket(i))

\* Mutant of ReleaseAfterSnapshot: the handle is not called after the read.
ReleaseAfterSnapshotSkipped(L, i) == L

\* finally { release() } after the snapshot read.
ReleaseAfterSnapshot(L, i) == MutexRelease(L, Conv(i), MyTicket(i))

\* finally { release() } after the assistant append.
ReleaseAfterAssistant(L, i) == MutexRelease(L, Conv(i), MyTicket(i))

\* 'history_appended' is journaled; finally release(); then the second
\* acquire, up to its await.
ReleaseAndAcquire2(i) ==
  LET L1 == ReleaseAfterAppend(locks, i)
      tk == Ticket(i, ticketNo[i] + 1)
      L2 == MutexAcquire(L1, Conv(i), tk)
  IN /\ Ready(i) /\ pc[i] = "added1"
     /\ locks' = L2
     /\ ticketNo' = [ticketNo EXCEPT ![i] = @ + 1]
     /\ PipelineLog(i, "history_appended", <<"user">>)
     /\ pc' = [pc EXCEPT ![i] = "wait2"]
     /\ microtasks' = Continue(Woken(locks, L2, Conv(i)))
     /\ UNCHANGED <<fixedVars, msgs, locals, tmVars, dirVars, errVars, store,
                    lastResponses>>

\* acquire returned; getMessages runs to completion before the await on it.
ReadSnapshot(i) ==
  /\ Ready(i) /\ pc[i] = "wait2"
  /\ MutexGranted(locks, Conv(i), MyTicket(i))
  /\ snapshot' = [snapshot EXCEPT ![i] = GetMessages(store[Conv(i)], DefaultMaxMessages)]
  /\ pc' = [pc EXCEPT ![i] = "read2"]
  /\ microtasks' = Continue(<<i>>)
  /\ UNCHANGED <<journal, fixedVars, msgs, response, toolRounds, attempt, thrown, verCalls,
                 tmVars, dirVars, errVars, mxVars, store, lastResponses>>

\* finally release(); messages and tools are built; updatePhase 'llm_calling'.
ReleaseAfterRead(i) ==
  LET L1 == ReleaseAfterSnapshot(locks, i) IN
  /\ Ready(i) /\ pc[i] = "read2"
  /\ locks' = L1
  /\ activeDir' = UpdatePhase(activeDir, PipelineTaskId(i), "llm_calling", 0)
  /\ pc' = [pc EXCEPT ![i] = "llmStart"]
  /\ microtasks' = Continue(Woken(locks, L1, Conv(i)) \o <<i>>)
  /\ UNCHANGED <<journal, fixedVars, msgs, locals, tmVars, completedDir, errVars, ticketNo, store,
                 lastResponses>>

\* 'llm_call_started' is journaled; runToolLoop: the first llmService.chat
\* call goes out.
LlmStart(i) ==
  /\ Ready(i) /\ pc[i] = "llmStart"
  /\ PipelineLog(i, "llm_call_started", <<>>)
  /\ pc' = [pc EXCEPT ![i] = "llm"]
  /\ microtasks' = Continue(<<>>)
  /\ UNCHANGED <<fixedVars, msgs, locals, tmVars, dirVars, errVars, mxVars, store,
                 lastResponses>>

\* ---- the tool-use loop and the verification loop: I/O completions
\* The response is final: updatePhase 'responding', then the third acquire.
ToResponding(i, r) ==
  /\ activeDir' = UpdatePhase(activeDir, PipelineTaskId(i), "responding", r)
  /\ pc' = [pc EXCEPT ![i] = "acquire3"]

\* chat returned text (the empty one, or the first generation) without tool
\* calls: runToolLoop returns it, 'llm_call_completed' is journaled, and
\* shouldVerify decides what follows.
LlmText(i, text, verify) ==
  /\ LoopIdle /\ pc[i] = "llm"
  /\ response' = [response EXCEPT ![i] = text]
  /\ PipelineLog(i, "llm_call_completed", <<>>)
  /\ IF verify
     THEN /\ activeDir' = UpdatePhase(activeDir, PipelineTaskId(i), "verifying", text)
          /\ pc' = [pc EXCEPT ![i] = "verifyStart"]
     ELSE ToResponding(i, text)
  /\ microtasks' = <<i>>
  /\ UNCHANGED <<fixedVars, msgs, snapshot, toolRounds, attempt, thrown, verCalls, tmVars,
                 completedDir, errVars, mxVars, store, lastResponses>>

\* chat returned tool calls: the assistant message joins the transcript
\* (currentMessages, a local of runToolLoop), 'tool_call_started' is journaled
\* and the tool is invoked.
LlmToolCalls(i) ==
  /\ LoopIdle /\ pc[i] = "llm"
  /\ toolRounds[i] < MaxToolRounds
  /\ toolRounds' = [toolRounds EXCEPT ![i] = @ + 1]
  /\ PipelineLog(i, "tool_call_started", <<>>)
  /\ pc' = [pc EXCEPT ![i] = "tool"]
  /\ UNCHANGED <<fixedVars, msgs, microtasks, response, snapshot, attempt, thrown, verCalls,
                 tmVars, dirVars, errVars, mxVars, store, lastResponses>>

\* The tool returned or threw; either way 'tool_call_completed' is journaled,
\* its result joins the transcript and the next chat call goes out.
ToolReturn(i) ==
  /\ LoopIdle /\ pc[i] = "tool"
  /\ PipelineLog(i, "tool_call_completed", <<>>)
  /\ pc' = [pc EXCEPT ![i] = "llm"]
  /\ UNCHANGED <<fixedVars, msgs, microtasks, locals, tmVars, dirVars, errVars, mxVars,
                 store, lastResponses>>

\* The locals of message i's handler go out of scope.
ScopeEnds(i) ==
  /\ response' = [response EXCEPT ![i] = 0]
  /\ snapshot' = [snapshot EXCEPT ![i] = <<>>]
  /\ toolRounds' = [toolRounds EXCEPT ![i] = 0]
  /\ attempt' = [attempt EXCEPT ![i] = 0]
  /\ verCalls' = [verCalls EXCEPT ![i] = [verify |-> 0, regen |-> 0]]

\* An LLM call of a pipeline threw: runPipeline rejects.
LlmFail(i) ==
  /\ LoopIdle /\ pc[i] \in {"llm", "regen"} /\ Kind(i) = "normal"
  /\ thrown' = [thrown EXCEPT ![i] = "llm"]
  /\ ScopeEnds(i)
  /\ pc' = [pc EXCEPT ![i] = "rejected"]
  /\ microtasks' = <<i>>
  /\ UNCHANGED <<journal, fixedVars, msgs, tmVars, dirVars, errVars, mxVars, store, lastResponses>>

\* The loop body starts with attempt a: verifier.verify is called.
CallVerifier(i, a) ==
  /\ attempt' = [attempt EXCEPT ![i] = a]
  /\ verCalls' = [verCalls EXCEPT ![i].verify = @ + 1]

\* 'verification_started' is journaled and runVerificationLoop starts: with
\* maxRetries = 0 the loop body never runs.
VerifyStart(i) ==
  /\ Ready(i) /\ pc[i] = "verifyStart"
  /\ PipelineLog(i, "verification_started", <<>>)
  /\ IF RetriesLeft(0, maxRetries)
     THEN /\ CallVerifier(i, 0)
          /\ pc' = [pc EXCEPT ![i] = "verify"]
          /\ microtasks' = Continue(<<>>)
          /\ UNCHANGED activeDir
     ELSE /\ ToResponding(i, response[i])
          /\ microtasks' = Continue(<<i>>)
          /\ UNCHANGED <<attempt, verCalls>>
  /\ UNCHANGED <<fixedVars, msgs, response, snapshot, toolRounds, thrown, tmVars,
                 completedDir, errVars, mxVars, store, lastResponses>>

\* The verification loop returned r to its caller: the pipeline goes on to
\* 'responding', /retry answers with it.
LoopReturns(i, r) ==
  IF Kind(i) = "normal"
  THEN ToResponding(i, r)
  ELSE /\ pc' = [pc EXCEPT ![i] = "builtinReply"]
       /\ UNCHANGED activeDir

\* verifier.verify returned: 'verification_result' is journaled with the task
\* id ''; a passed response is returned, any other is regenerated by a chat
\* call (from scratch on REDO, by revision otherwise).
VerifyReturn(i, result) ==
  /\ LoopIdle /\ pc[i] = "verify"
  /\ result \in Verify(response[i], rulesEnabled)
  /\ journal' = JournalLog(journal, Conv(i),
                           <<JournalEntry("verification_result", NoTaskId,
                                          <<result.rating, result.passed>>)>>)
  /\ IF result.passed
     THEN /\ LoopReturns(i, response[i])
          /\ attempt' = [attempt EXCEPT ![i] = 0]
          /\ microtasks' = <<i>>
          /\ UNCHANGED verCalls
     ELSE /\ pc' = [pc EXCEPT ![i] = "regen"]
          /\ verCalls' = [verCalls EXCEPT ![i].regen = @ + 1]
          /\ UNCHANGED <<activeDir, microtasks, attempt>>
  /\ UNCHANGED <<fixedVars, msgs, response, snapshot, toolRounds, thrown, tmVars,
                 completedDir, errVars, mxVars, store, lastResponses>>

\* The regenerating chat call returned its text (empty, or the next
\* generation): next attempt, or retries exhausted.
RegenReturn(i, empty) ==
  LET text == IF empty THEN EmptyText ELSE NextGeneration(response[i], attempt[i]) IN
  /\ LoopIdle /\ pc[i] = "regen"
  /\ response' = [response EXCEPT ![i] = text]
  /\ IF RetriesLeft(attempt[i] + 1, maxRetries)
     THEN /\ CallVerifier(i, attempt[i] + 1)
          /\ pc' = [pc EXCEPT ![i] = "verify"]
          /\ UNCHANGED <<activeDir, microtasks>>
     ELSE /\ LoopReturns(i, text)
          /\ attempt' = [attempt EXCEPT ![i] = 0]
          /\ microtasks' = <<i>>
          /\ UNCHANGED verCalls
  /\ UNCHANGED <<journal, fixedVars, msgs, snapshot, toolRounds, thrown, tmVars, completedDir,
                 errVars, mxVars, store, lastResponses>>

\* ---- the assistant append and the send
Acquire3(i) == AcquireAt(i, "acquire3", "wait3")

\* acquire returned; addMessage(assistant) runs to completion before the await.
AppendAssistant(i) ==
  /\ Ready(i) /\ pc[i] = "wait3"
  /\ MutexGranted(locks, Conv(i), MyTicket(i))
  /\ store' = [store EXCEPT ![Conv(i)] =
                 AddMessage(@, storeCfg, now,
                            [role |-> "assistant", content |-> AssistantText(i, response[i])])]
  /\ pc' = [pc EXCEPT ![i] = "added3"]
  /\ microtasks' = Continue(<<i>>)
  /\ UNCHANGED <<journal, fixedVars, msgs, locals, tmVars, dirVars, errVars, mxVars, lastResponses>>

\* 'history_appended' is journaled; finally release(); lastResponses.set;
\* channel.sendMessage goes out.
ReleaseAndSend(i) ==
  LET L1 == ReleaseAfterAssistant(locks, i) IN
  /\ Ready(i) /\ pc[i] = "added3"
  /\ locks' = L1
  /\ lastResponses' = [lastResponses EXCEPT ![Conv(i)] = response[i]]
  /\ ticketNo' = [ticketNo EXCEPT ![i] = 0]
  /\ PipelineLog(i, "history_appended", <<"assistant">>)
  /\ replySends' = [replySends EXCEPT ![i] = RepliesSent(@)]
  /\ pc' = [pc EXCEPT ![i] = "send"]
  /\ microtasks' = Continue(Woken(locks, L1, Conv(i)))
  /\ UNCHANGED <<fixedVars, msgs, locals, tmVars, dirVars, errorReplies, errorSends, store>>

\* channel.sendMessage settled: runPipeline journals 'response_sent' and
\* 'task_completed' and resolves, or rejects with the send error.
SendReturn(i, ok) ==
  /\ LoopIdle /\ pc[i] = "send"
  /\ pc' = [pc EXCEPT ![i] = IF ok THEN "resolved" ELSE "rejected"]
  /\ journal' = JournalLog(journal, Conv(i),
                           [k \in 1..Len(EventsAfterSend(ok)) |->
                              JournalEntry(EventsAfterSend(ok)[k], PipelineTaskId(i), <<>>)])
  /\ thrown' = [thrown EXCEPT ![i] = IF ok THEN @ ELSE "send"]
  /\ ScopeEnds(i)
  /\ microtasks' = <<i>>
  /\ UNCHANGED <<fixedVars, msgs, tmVars, dirVars, errVars, mxVars, store, lastResponses>>

\* ---- TaskManager.submit: the handlers chained on the pipeline promise
\* .then: the task completed.
OnResolved(i) ==
  LET d == Complete(Dirs, NewTaskId(i)) IN
  /\ Ready(i) /\ pc[i] = "resolved"
  /\ taskStatus' = [taskStatus EXCEPT ![i] = "completed"]
  /\ activeDir' = d.active
  /\ completedDir' = d.completed
  /\ pc' = [pc EXCEPT ![i] = "finally"]
  /\ microtasks' = Continue(<<i>>)
  /\ UNCHANGED <<journal, fixedVars, msgs, locals, activeTasks, typingIntervals, errVars, mxVars,
                 store, lastResponses>>

\* sendErrorReply: one channel.sendMessage call.
ErrorRepliesSent(n) == n + 1

\* .catch: the task failed; fail() persists it and sendErrorReply dispatches
\* the error reply without awaiting it.
OnRejected(i) ==
  LET d == Fail(Dirs, NewTaskId(i), thrown[i]) IN
  /\ Ready(i) /\ pc[i] = "rejected"
  /\ taskStatus' = [taskStatus EXCEPT ![i] = "failed"]
  /\ activeDir' = d.active
  /\ completedDir' = d.completed
  /\ errorReplies' = [errorReplies EXCEPT ![i] = ErrorRepliesSent(@)]
  /\ errorSends' = [errorSends EXCEPT ![i] = "pending"]
  /\ thrown' = [thrown EXCEPT ![i] = None]
  /\ pc' = [pc EXCEPT ![i] = "finally"]
  /\ microtasks' = Continue(<<i>>)
  /\ UNCHANGED <<journal, fixedVars, msgs, response, snapshot, toolRounds, attempt, verCalls,
                 activeTasks, typingIntervals, replySends, mxVars, store, lastResponses>>

\* .finally: the in-memory entry goes, and the typing timer with the last one.
OnFinally(i) ==
  /\ Ready(i) /\ pc[i] = "finally"
  /\ activeTasks' = activeTasks \ {NewTaskId(i)}
  /\ typingIntervals' = cleanupTypingIfDone(typingIntervals, activeTasks', Conv(i))
  /\ pc' = [pc EXCEPT ![i] = "done"]
  /\ microtasks' = Continue(<<>>)
  /\ UNCHANGED <<journal, fixedVars, msgs, locals, taskStatus, dirVars, errVars, mxVars, store,
                 lastResponses>>

\* The error reply's send settled; a failure is logged by its .catch.
ErrorReplyReturn(i, ok) ==
  /\ LoopIdle /\ errorSends[i] = "pending"
  /\ errorSends' = [errorSends EXCEPT ![i] = IF ok THEN "sent" ELSE "failed"]
  /\ UNCHANGED <<journal, fixedVars, msgs, pc, microtasks, locals, tmVars, dirVars, errorReplies,
                 replySends, mxVars, store, lastResponses>>

\* ---- builtin skills after their first await
\* /retry: the last user message of the history read; then the verification
\* loop on the last response.
RetryFind(i) ==
  /\ Ready(i) /\ pc[i] = "retryFind"
  /\ IF /\ \E j \in 1..Len(snapshot[i]) : snapshot[i][j].role = "user"
        /\ RetriesLeft(0, maxRetries)
     THEN /\ CallVerifier(i, 0)
          /\ pc' = [pc EXCEPT ![i] = "verify"]
          /\ microtasks' = Continue(<<>>)
     ELSE /\ pc' = [pc EXCEPT ![i] = "builtinReply"]
          /\ microtasks' = Continue(<<i>>)
          /\ UNCHANGED <<attempt, verCalls>>
  /\ UNCHANGED <<journal, fixedVars, msgs, response, snapshot, toolRounds, thrown, tmVars, dirVars,
                 errVars, mxVars, store, lastResponses>>

\* /retry: the regenerating chat call threw; handleMessage rejects.
RetryFail(i) ==
  /\ LoopIdle /\ pc[i] = "regen" /\ Kind(i) = "retry"
  /\ pc' = [pc EXCEPT ![i] = "done"]
  /\ ScopeEnds(i)
  /\ UNCHANGED <<journal, fixedVars, msgs, microtasks, thrown, tmVars, dirVars, errVars, mxVars,
                 store, lastResponses>>

\* handleMessage sends the builtin's text as the reply.
BuiltinReply(i) ==
  /\ Ready(i) /\ pc[i] = "builtinReply"
  /\ replySends' = [replySends EXCEPT ![i] = RepliesSent(@)]
  /\ pc' = [pc EXCEPT ![i] = "replySend"]
  /\ ScopeEnds(i)
  /\ microtasks' = Continue(<<>>)
  /\ UNCHANGED <<journal, fixedVars, msgs, thrown, tmVars, dirVars, errorReplies, errorSends,
                 mxVars, store, lastResponses>>

\* The reply's send settled; handleMessage returns or rejects.
ReplyReturn(i) ==
  /\ LoopIdle /\ pc[i] = "replySend"
  /\ pc' = [pc EXCEPT ![i] = "done"]
  /\ UNCHANGED <<journal, fixedVars, msgs, microtasks, locals, tmVars, dirVars, errVars, mxVars,
                 store, lastResponses>>

\* ---- the host specification
MaxRetriesConfigs == {0, 1, 2}

Init ==
  /\ InitHistoryVars /\ storeCfg = [maxSegmentSizeBytes |-> DefaultMaxSegmentSizeBytes,
                                     maxSegments |-> DefaultMaxSegments]
  /\ InitMutexVars
  /\ InitHostVars /\ maxRetries \in MaxRetriesConfigs /\ rulesEnabled \in BOOLEAN
  /\ journalEnabled = FALSE
  /\ maxIterations = DefaultMaxIterations

\* A channel hands a message to handleMessage.
Arrival ==
  \/ \E c \in Convs : InboundNormal(c)
  \/ \E c \in Convs : InboundClear(c)
  \/ \E c \in Convs : InboundRetry(c)

\* A continuation runs, or an I/O completion is handled.
Handling ==
  \/ \E i \in MsgIds : Submit(i)
  \/ \E i \in MsgIds : Acquire1(i)
  \/ \E i \in MsgIds : AppendUser(i)
  \/ \E i \in MsgIds : ReleaseAndAcquire2(i)
  \/ \E i \in MsgIds : ReadSnapshot(i)
  \/ \E i \in MsgIds : ReleaseAfterRead(i)
  \/ \E i \in MsgIds : LlmStart(i)
  \/ \E i \in MsgIds, t \in {EmptyText, 1}, v \in BOOLEAN : LlmText(i, t, v)
  \/ \E i \in MsgIds : LlmToolCalls(i)
  \/ \E i \in MsgIds : ToolReturn(i)
  \/ \E i \in MsgIds : LlmFail(i)
  \/ \E i \in MsgIds : VerifyStart(i)
  \/ \E i \in MsgIds, r \in VerificationResults : VerifyReturn(i, r)
  \/ \E i \in MsgIds, e \in BOOLEAN : RegenReturn(i, e)
  \/ \E i \in MsgIds : Acquire3(i)
  \/ \E i \in MsgIds : AppendAssistant(i)
  \/ \E i \in MsgIds : ReleaseAndSend(i)
  \/ \E i \in MsgIds, ok \in BOOLEAN : SendReturn(i, ok)
  \/ \E i \in MsgIds : OnResolved(i)
  \/ \E i \in MsgIds : OnRejected(i)
  \/ \E i \in MsgIds : OnFinally(i)
  \/ \E i \in MsgIds, ok \in BOOLEAN : ErrorReplyReturn(i, ok)
  \/ \E i \in MsgIds : RetryFind(i)
  \/ \E i \in MsgIds : RetryFail(i)
  \/ \E i \in MsgIds : BuiltinReply(i)
  \/ \E i \in MsgIds : ReplyReturn(i)

Next == Arrival \/ Handling

Spec == Init /\ [][Next]_vars

\* ---- the host with its journal and the rule checks enabled (the defaults),
\* fed one message at a time: a message arrives when the handlers of the
\* earlier ones have finished.
Quiescent == \A i \in 1..Len(msgs) : pc[i] = "done" /\ errorSends[i] # "pending"

InitJournal ==
  /\ InitHistoryVars /\ storeCfg = [maxSegmentSizeBytes |-> DefaultMaxSegmentSizeBytes,
                                     maxSegments |-> DefaultMaxSegments]
  /\ InitMutexVars
  /\ InitHostVars /\ maxRetries \in MaxRetriesConfigs /\ rulesEnabled = TRUE
  /\ journalEnabled = TRUE
  /\ maxIterations = DefaultMaxIterations

NextJournal == (Quiescent /\ Arrival) \/ Handling

SpecJournal == InitJournal /\ [][NextJournal]_vars

\* ------------------------------------------------- properties of the host
Received == 1..Len(msgs)

\* The history entries of conversation c, as getMessages collects them.
Entries(c) == GetEntries(store[c], DefaultMaxMessages)

IsUserEntryOf(e, i) == e.role = "user" /\ e.content = UserText(i)

\* A /clear of message i's conversation arrived after i and before j.
ClearedBetween(i, j) ==
  \E k \in Received : i < k /\ k < j /\ Kind(k) = "clear" /\ Conv(k) = Conv(i)

HistoryAccessHeld ==
  [][\A c \in Convs :
       (\/ store'[c] # store[c]
        \/ \E i \in 1..Len(msgs') :
             msgs'[i].conv = c /\ snapshot'[i] # snapshot[i] /\ snapshot'[i] # <<>>)
       => \E i \in MsgIds : HoldsKey(locks', pc', i, c)]_vars

\* The calls during which a handler waits for the LLM, a tool, the verifier or
\* the channel.
CallPcs == {"llm", "tool", "verify", "regen", "send"}

\* C4: a pipeline that is inside an LLM call, a tool call, a verifier
\* invocation or a channel send holds no conversation key.
NoMutexAcrossCalls ==
  \A i \in Received :
    pc[i] \in CallPcs => \A c \in Convs : ~HoldsKey(locks, pc, i, c)

\* One pipeline inside a tool call while another of the same conversation is
\* inside its channel send, after each went through its held regions.
NoMutexAcrossCallsWitness ==
  \E i, j \in Received :
    /\ Conv(i) = Conv(j) /\ Kind(i) = "normal" /\ Kind(j) = "normal"
    /\ pc[i] = "tool" /\ pc[j] = "send"

\* The phase runPipeline has most recently asked updatePhase to record.
PhaseAsked(i) ==
  CASE pc[i] \in {"acquire1", "wait1", "added1", "wait2", "read2"} -> "history_written"
    [] pc[i] \in {"llmStart", "llm", "tool"} -> "llm_calling"
    [] pc[i] \in {"verifyStart", "verify", "regen"} -> "verifying"
    [] pc[i] \in {"acquire3", "wait3", "added3", "send"} -> "responding"
    [] OTHER -> "received"

\* C5: while a pipeline runs, the active file of the task submit created for
\* it records the phase the pipeline has reached, and under verifying or
\* responding its pendingResponse is the response then pending.
ActiveFileTracksPhase ==
  \A i \in Received :
    (Kind(i) = "normal" /\ taskStatus[i] = "running" /\ pc[i] \notin {"resolved", "rejected"})
    => /\ NewTaskId(i) \in DOMAIN activeDir
       /\ activeDir[NewTaskId(i)].phase = PhaseAsked(i)
       /\ PhaseAsked(i) \in {"verifying", "responding"}
          => activeDir[NewTaskId(i)].pendingResponse = response[i]

\* C6: every task file under completed/ has phase completed or failed.
CompletedFilesTerminal ==
  \A id \in DOMAIN completedDir : completedDir[id].phase \in {"completed", "failed"}

\* The ids submit allocated whose task has the given statuses.
TasksWith(statuses) == {NewTaskId(i) : i \in {n \in Received : taskStatus[n] \in statuses}}

\* C7: active/ holds a file for exactly the tasks in flight, none of which has
\* a file under completed/; a settled task has no file under active/ and one
\* under completed/.
ActiveFileLifecycle ==
  /\ DOMAIN activeDir = TasksWith({"running"})
  /\ DOMAIN completedDir = TasksWith({"completed", "failed"})

\* One task in flight, one completed: the first has its active file, the
\* second has been moved.
ActiveFileLifecycleWitness ==
  \E i, j \in Received :
    /\ taskStatus[i] = "running" /\ pc[i] = "llm"
    /\ taskStatus[j] \in {"completed", "failed"} /\ pc[j] = "done"
    /\ NewTaskId(i) \in DOMAIN activeDir /\ NewTaskId(j) \in DOMAIN completedDir

\* C8: a typing timer exists for a conversation exactly when an active task
\* targets it.
TypingTimerIffActive ==
  \A c \in Convs : c \in typingIntervals <=> \E t \in activeTasks : TaskConv(t) = c

\* Two tasks of one conversation were active together; one has finished and
\* the timer is still there for the other.
TypingTimerIffActiveWitness ==
  \E i, j \in Received :
    /\ i # j /\ Conv(i) = Conv(j)
    /\ taskStatus[i] \in {"completed", "failed"} /\ pc[i] = "done"
    /\ NewTaskId(j) \in activeTasks /\ Conv(j) \in typingIntervals

\* C9: a task whose pipeline rejected is under completed/ with phase failed
\* and the error, has no active file, has had exactly one error reply
\* dispatched, and is out of activeTasks once submit's handlers have run;
\* this is so whether the error reply's send succeeded or failed, and no other
\* task gets an error reply.
FailureOutcome ==
  \A i \in Received :
    /\ taskStatus[i] = "failed"
       => /\ NewTaskId(i) \in DOMAIN completedDir
          /\ completedDir[NewTaskId(i)].phase = "failed"
          /\ completedDir[NewTaskId(i)].error \in {"llm", "send"}
          /\ NewTaskId(i) \notin DOMAIN activeDir
          /\ errorReplies[i] = 1
          /\ pc[i] \in {"finally", "done"}
          /\ pc[i] = "done" => NewTaskId(i) \notin activeTasks
    /\ taskStatus[i] # "failed" => errorReplies[i] = 0 /\ errorSends[i] = None

\* A task failed on its channel send, and its error reply's send failed too.
FailureOutcomeWitness ==
  \E i \in Received :
    /\ taskStatus[i] = "failed" /\ pc[i] = "done" /\ errorSends[i] = "failed"
    /\ completedDir[NewTaskId(i)].error = "send"

\* C16: whatever the verifier returns, a run of the verification loop has made
\* at most maxRetries verifier calls and at most maxRetries regenerating chat
\* calls; it waits only for a call of an attempt below maxRetries, each
\* verifier call but the one it waits for was followed by at most one
\* regeneration, and once it has returned the pipeline holds a response that
\* goes to the history and the channel.
VerificationBounded ==
  \A i \in Received :
    /\ verCalls[i].verify <= maxRetries
    /\ verCalls[i].regen <= maxRetries
    /\ verCalls[i].regen <= verCalls[i].verify
    /\ pc[i] \in {"verify", "regen"} =>
         /\ attempt[i] < maxRetries
         /\ verCalls[i].verify = attempt[i] + 1
         /\ verCalls[i].regen = IF pc[i] = "regen" THEN attempt[i] + 1 ELSE attempt[i]
    /\ pc[i] \in {"acquire3", "wait3", "added3"} /\ verCalls[i].verify > 0 =>
         response[i] \in {EmptyText} \cup 1..(maxRetries + 1)

\* A run that used up two retries has returned: two verifier calls, two
\* regenerations, and the pipeline is about to append its response.
VerificationBoundedWitness ==
  \E i \in Received :
    /\ maxRetries = 2
    /\ verCalls[i] = [verify |-> 2, regen |-> 2]
    /\ pc[i] = "acquire3"

\* The journal entries of message i's conversation that carry its pipeline's
\* task id and whose event is in `events`, as the events in journal order.
TaskTimeline(i, events) ==
  LET own == SelectSeq(journal[Conv(i)],
                       LAMBDA e : e.taskId = PipelineTaskId(i) /\ e.event \in events)
  IN [k \in 1..Len(own) |-> own[k].event]

\* The verification_result entries of conversation c that carry `rating`.
ResultsRated(c, rating) ==
  {k \in 1..Len(journal[c]) :
     journal[c][k].event = "verification_result" /\ journal[c][k].data[1] = rating}

\* C17: with rule checks enabled, the verifier's result for an empty first
\* response is REDO, it is journaled and a regeneration follows; when the
\* regeneration has returned, the journal of the conversation (which no other
\* message has touched) holds two llm_call_completed entries of the task and
\* exactly one verification_result rated REDO.
EmptyResponseRedone ==
  [][\A i \in Received :
       Kind(i) = "normal" /\ rulesEnabled /\ response[i] = EmptyText /\ attempt[i] = 0
       /\ (\A j \in Received \ {i} : Conv(j) # Conv(i)) =>
         /\ pc[i] = "verify" /\ pc'[i] # "verify" =>
              /\ pc'[i] = "regen"
              /\ Last(journal'[Conv(i)]).event = "verification_result"
              /\ Last(journal'[Conv(i)]).data[1] = "REDO"
         /\ pc[i] = "regen" /\ pc'[i] \notin {"regen", "rejected"} =>
              /\ Cardinality(ResultsRated(Conv(i), "REDO")') = 1
              /\ TaskTimeline(i, {"llm_call_completed"})' =
                   <<"llm_call_completed", "llm_call_completed">>]_vars

\* C18: when the response of a pipeline whose LLM issued tool calls goes out,
\* the persisted history of the conversation holds, in this order, the user
\* message, an assistant message, a tool message and the final assistant
\* message.
ToolMessagesPersisted ==
  \A i \in Received :
    Kind(i) = "normal" /\ pc[i] = "send" /\ toolRounds[i] > 0 =>
      \E u, a, t, f \in 1..Len(Entries(Conv(i))) :
        /\ u < a /\ a < t /\ t < f
        /\ IsUserEntryOf(Entries(Conv(i))[u], i)
        /\ Entries(Conv(i))[a].role = "assistant"
        /\ Entries(Conv(i))[t].role = "tool"
        /\ Entries(Conv(i))[f].role = "assistant"
        /\ Entries(Conv(i))[f].content = AssistantText(i, response[i])

PipelineEvents ==
  <<"pipeline_started", "llm_call_started", "llm_call_completed", "response_sent",
    "task_completed">>

JournalCarriesTaskId ==
  \A c \in Convs : \A k \in 1..Len(journal[c]) :
    /\ journal[c][k].taskId # NoTaskId
    /\ journal[c][k].taskId \in {NewTaskId(i) : i \in Received}

\* The builtin-skill messages among those handed over after this step.
BuiltinsNext == {i \in 1..Len(msgs') : msgs'[i].kind \in {"clear", "retry"}}

\* No task exists for message i after this step, and a step of i's handler
\* leaves the active-task map and the task store as they were.
NoTaskFor(i) ==
  /\ taskStatus'[i] = None
  /\ NewTaskId(i) \notin activeTasks'
  /\ NewTaskId(i) \notin DOMAIN activeDir' \cup DOMAIN completedDir'
  /\ pc'[i] # pc[i] => activeTasks' = activeTasks /\ activeDir' = activeDir
                        /\ completedDir' = completedDir

\* /clear has run (it runs as the message is handed over): a getMessages on
\* the conversation returns [].
ClearedOnArrival(i) ==
  msgs'[i].kind = "clear" /\ Len(msgs') > Len(msgs) /\ i = Len(msgs') =>
    GetMessages(store'[msgs'[i].conv], DefaultMaxMessages) = <<>>

\* C21 as stated: a builtin's handler submits no task, leaves active-task map,
\* task store and journal unchanged, has sent exactly one reply when it is
\* done, and after /clear getMessages returns [].
BuiltinLeavesJournal ==
  [][\A i \in BuiltinsNext :
       /\ NoTaskFor(i)
       /\ pc'[i] # pc[i] => journal' = journal
       /\ replySends'[i] <= 1
       /\ pc'[i] = "done" => replySends'[i] = 1
       /\ ClearedOnArrival(i)]_vars

\* C21: a builtin's handler submits no task and leaves active-task map and
\* task store unchanged; the only journal entries it writes are the
\* verification_result entries of /retry; it sends at most one reply, and
\* exactly one when the builtin has returned its text; after /clear
\* getMessages returns [].
BuiltinInProcess ==
  [][\A i \in BuiltinsNext :
       /\ NoTaskFor(i)
       /\ pc'[i] # pc[i] =>
            \/ journal' = journal
            \/ /\ msgs'[i].kind = "retry"
               /\ \E e \in {JournalEntry("verification_result", NoTaskId, <<r.rating, r.passed>>) :
                               r \in VerificationResults} :
                    journal' = [journal EXCEPT ![msgs'[i].conv] = Append(@, e)]
       /\ replySends'[i] <= 1
       /\ pc[i] = "builtinReply" /\ pc'[i] # pc[i] => replySends'[i] = 1
       /\ pc'[i] = "done" /\ replySends'[i] = 0 => pc[i] \in {"regen", "done"}
       /\ ClearedOnArrival(i)]_vars

\* A /retry whose verification loop ran is done: one reply sent, and the last
\* journal entry of the conversation is a verification_result.
BuiltinInProcessWitness ==
  \E i \in Received :
    /\ Kind(i) = "retry" /\ pc[i] = "done" /\ replySends[i] = 1
    /\ journal[Conv(i)] # <<>>
    /\ Last(journal[Conv(i)]).event = "verification_result"

\* ============================================================ SpecToolLoop
\* One activation of AgentService.runToolLoop against an LLM that answers
\* each chat call with a text or with up to MaxCallsPerResult tool calls, and
\* against tools and skill completions that return or throw.
\* currentMessages keeps the messages the run pushes (the transcript it was
\* given is left out); a message is its role, toolCallId and what it carries.
ToolKinds == {"mcp", "skill", "skillMissing"}

ToolCallLists ==
  UNION {[1..n -> ToolKinds] : n \in 1..MaxCallsPerResult}

\* Mutant of LoopContinues: the bound is compared with <=.
LoopContinuesInclusive(iters, max) == iters <= max

\* while (iterations < maxIterations)
LoopContinues(iters, max) == iters < max

\* The loop condition is evaluated with `iters` iterations done: the next chat
\* call goes out, with tools inside the loop and without after it.
NextChat(iters) ==
  /\ loopPc' = IF LoopContinues(iters, maxIterations) THEN "chat" ELSE "final"
  /\ llmCalls' = [llmCalls EXCEPT !.chat = @ + 1]

\* journal.log(event, taskId, channelId, conversationId) in runToolLoop, for
\* the run the first message's pipeline would start.
LoopLog(events) ==
  journal' = JournalLog(journal, CHOOSE c \in Convs : TRUE,
                        [k \in 1..Len(events) |-> JournalEntry(events[k], MessageId(1), <<>>)])

ToolMessage(call, content) == [role |-> "tool", toolCallId |-> call.id, content |-> content]

\* currentMessages.push({role: 'tool', content: toolResult, toolCallId}).
PushToolResult(msgs0, call, content) == Append(msgs0, ToolMessage(call, content))

\* The tool call at the head of the list has its result: it is pushed, and after
\* the last call of the result the iteration ends.
ToolCallDone(content, completes) ==
  /\ currentMessages' = PushToolResult(currentMessages, Head(toolCalls), content)
  /\ toolCalls' = Tail1(toolCalls)
  /\ IF Tail1(toolCalls) = <<>>
     THEN /\ iterations' = iterations + 1
          /\ loopPc' = IF LoopContinues(iterations + 1, maxIterations) THEN "chat" ELSE "final"
          /\ llmCalls' = [llmCalls EXCEPT !.chat = @ + 1, !.complete = @ + completes]
     ELSE /\ llmCalls' = [llmCalls EXCEPT !.complete = @ + completes]
          /\ UNCHANGED <<iterations, loopPc>>
  /\ UNCHANGED <<maxIterations, loopResult>>

LoopRest == <<superVars, histVars, locks, mutexClientVars, msgs, pc, microtasks, ticketNo, response,
              snapshot, toolRounds, attempt, maxRetries, taskStatus, activeTasks,
              typingIntervals, activeDir, completedDir, lastResponses, errorReplies,
              errorSends, thrown, verCalls, rulesEnabled, journalEnabled, replySends>>

LoopStart ==
  /\ loopPc = "start"
  /\ NextChat(iterations)
  /\ UNCHANGED <<maxIterations, iterations, currentMessages, toolCalls, loopResult,
                 journal, LoopRest>>

\* chat returned no tool calls: return result.content.
ChatReturnsText ==
  /\ loopPc = "chat"
  /\ loopPc' = "returned"
  /\ loopResult' = [kind |-> "text", of |-> llmCalls.chat]
  /\ UNCHANGED <<maxIterations, iterations, currentMessages, toolCalls, llmCalls, journal,
                 LoopRest>>

\* chat returned tool calls: the assistant message is pushed and the calls are
\* executed in order.
ChatReturnsToolCalls(kinds) ==
  /\ loopPc = "chat"
  /\ currentMessages' = Append(currentMessages,
                               [role |-> "assistant", toolCallId |-> None,
                                content |-> llmCalls.chat])
  /\ toolCalls' = [k \in 1..Len(kinds) |-> [id |-> llmCalls.ids + k, kind |-> kinds[k]]]
  /\ llmCalls' = [llmCalls EXCEPT !.ids = @ + Len(kinds)]
  /\ loopPc' = "tools"
  /\ UNCHANGED <<maxIterations, iterations, loopResult, journal, LoopRest>>

\* A chat call threw: nothing in runToolLoop catches it.
ChatThrows ==
  /\ loopPc \in {"chat", "final"}
  /\ loopPc' = "threw"
  /\ loopResult' = [kind |-> "error", of |-> "chat"]
  /\ UNCHANGED <<maxIterations, iterations, currentMessages, toolCalls, llmCalls, journal,
                 LoopRest>>

\* mcpManager.invokeTool returned, or threw (tool failure, unknown server):
\* the catch block makes the error the tool result; the call is journaled
\* before it and after it.
McpToolSettles(ok) ==
  /\ loopPc = "tools" /\ Head(toolCalls).kind = "mcp"
  /\ ToolCallDone(IF ok THEN "result" ELSE "Tool error", 0)
  /\ LoopLog(<<"tool_call_started", "tool_call_completed">>)
  /\ UNCHANGED LoopRest

\* skill__<name> with no such skill, or a skill without instructions.
SkillNotFound ==
  /\ loopPc = "tools" /\ Head(toolCalls).kind = "skillMissing"
  /\ ToolCallDone("Skill not found", 0)
  /\ UNCHANGED <<journal, LoopRest>>

\* skill__<name>: llmService.complete returned the skill's text.
SkillCompletionReturns ==
  /\ loopPc = "tools" /\ Head(toolCalls).kind = "skill"
  /\ ToolCallDone("skill result", 1)
  /\ LoopLog(<<"tool_call_started", "tool_call_completed">>)
  /\ UNCHANGED LoopRest

\* skill__<name>: llmService.complete threw; the call is outside any try.
SkillCompletionThrows ==
  /\ loopPc = "tools" /\ Head(toolCalls).kind = "skill"
  /\ loopPc' = "threw"
  /\ loopResult' = [kind |-> "error", of |-> "complete"]
  /\ llmCalls' = [llmCalls EXCEPT !.complete = @ + 1]
  /\ LoopLog(<<"tool_call_started">>)
  /\ UNCHANGED <<maxIterations, iterations, currentMessages, toolCalls, LoopRest>>

\* The chat call made after maxIterations iterations returned.
FinalChatReturns ==
  /\ loopPc = "final"
  /\ loopPc' = "returned"
  /\ loopResult' = [kind |-> "text", of |-> llmCalls.chat]
  /\ UNCHANGED <<maxIterations, iterations, currentMessages, toolCalls, llmCalls, journal,
                 LoopRest>>

InitToolLoop ==
  /\ InitHistoryVars /\ storeCfg = [maxSegmentSizeBytes |-> DefaultMaxSegmentSizeBytes,
                                     maxSegments |-> DefaultMaxSegments]
  /\ InitMutexVars
  /\ InitHostVars /\ maxRetries = 0 /\ rulesEnabled = TRUE /\ journalEnabled = TRUE
  /\ maxIterations \in 0..MaxLoopIterations

NextToolLoop ==
  \/ LoopStart
  \/ ChatReturnsText
  \/ \E kinds \in ToolCallLists : ChatReturnsToolCalls(kinds)
  \/ ChatThrows
  \/ \E ok \in BOOLEAN : McpToolSettles(ok)
  \/ SkillNotFound
  \/ SkillCompletionReturns
  \/ SkillCompletionThrows
  \/ FinalChatReturns

SpecToolLoop == InitToolLoop /\ [][NextToolLoop]_vars

ToolMessagesOf(n) ==
  {k \in 1..Len(currentMessages) :
     currentMessages[k].role = "tool" /\ currentMessages[k].toolCallId = n}

\* C15: every tool call executed so far has exactly one tool message with its
\* toolCallId, and no run ends in an exception thrown by a tool or a skill.
ToolFailureNeverAborts ==
  /\ \A n \in 1..(llmCalls.ids - Len(toolCalls)) : Cardinality(ToolMessagesOf(n)) = 1
  /\ loopPc = "threw" => loopResult.of = "chat"

\* ============================================================= SpecRecovery
\* The host starts over a tasks/active/ directory left behind by a process
\* that died: TaskRecoveryService.recover() and the calls it makes.
TaskPhases == {"received", "history_written", "llm_calling", "verifying", "responding",
               "completed", "failed"}

EarlyPhases == {"received", "history_written", "llm_calling"}

\* The channelId a task file may carry, and the channels the ChannelManager of
\* the starting host has registered.
ChannelIds == {"web", "old"}

RegisteredChannels == {"web"}

\* channelManager.getChannel(id): a channel, or undefined.
GetChannel(id) == id \in RegisteredChannels

\* A readable task file under active/. pendingResponse 0: absent or empty.
OrphanFile(n, conv, channelId, phase, pending) ==
  [id |-> NewTaskId(n), conv |-> conv, channelId |-> channelId, phase |-> phase,
   error |-> None, pendingResponse |-> pending]

OrphanedDirs ==
  {f \in UNION {[{NewTaskId(n) : n \in ns} ->
                   {OrphanFile(n, c, ch, ph, p) :
                      n \in ns, c \in Convs, ch \in ChannelIds, ph \in TaskPhases,
                      p \in 0..1}] : ns \in SUBSET (1..MaxOrphans)} :
     \A id \in DOMAIN f : f[id].id = id}

\* The texts recoverTask sends, and the text of no send.
NoText == [kind |-> "none", body |-> 0]

ResendRequest == [kind |-> "resend", body |-> 0]

Disclaimed(pending) == [kind |-> "unverified", body |-> pending]

Verbatim(pending) == [kind |-> "response", body |-> pending]

\* Mutant of RecoveryText: a response that was being sent is sent with the
\* disclaimer of an unverified one.
RecoveryTextDisclaimed(t) ==
  IF ~GetChannel(t.channelId) THEN NoText
  ELSE IF t.phase \in EarlyPhases THEN ResendRequest
  ELSE IF t.phase = "verifying"
    THEN IF t.pendingResponse # 0 THEN Disclaimed(t.pendingResponse) ELSE ResendRequest
  ELSE IF t.phase = "responding" /\ t.pendingResponse # 0 THEN Disclaimed(t.pendingResponse)
  ELSE NoText

\* The switch of recoverTask: the text of the one send it awaits, NoText when it
\* sends nothing.
RecoveryText(t) ==
  IF ~GetChannel(t.channelId) THEN NoText
  ELSE IF t.phase \in EarlyPhases THEN ResendRequest
  ELSE IF t.phase = "verifying"
    THEN IF t.pendingResponse # 0 THEN Disclaimed(t.pendingResponse) ELSE ResendRequest
  ELSE IF t.phase = "responding" /\ t.pendingResponse # 0 THEN Verbatim(t.pendingResponse)
  ELSE NoText

RecoveryEntry(t, action) ==
  <<JournalEntry("task_failed", t.id, <<"recovery", t.phase, action>>)>>

\* The switch of recoverTask: what it journals after the send, if any, returned.
RecoveryJournal(t) ==
  IF t.phase \in EarlyPhases THEN RecoveryEntry(t, "notify_resend")
  ELSE IF t.phase = "verifying"
    THEN RecoveryEntry(t, IF t.pendingResponse # 0 THEN "sent_unverified" ELSE "notify_resend")
  ELSE IF t.phase = "responding"
    THEN RecoveryEntry(t, IF t.pendingResponse # 0 THEN "resent_response" ELSE "no_response")
  ELSE <<>>

\* Mutant of ForceComplete: the catch block only logs.
ForceCompleteSkipped(dirs, id) == dirs

\* The catch block of recoverTask.
ForceComplete(dirs, id) == Fail(dirs, id, "recovery")

monitorVars == <<monitor, channel>>

hostRest == <<histVars, locks, mutexClientVars, loopVars, msgs, pc, microtasks, ticketNo,
              response, snapshot, toolRounds, attempt, maxRetries, taskStatus, activeTasks,
              typingIntervals, lastResponses, errorReplies, errorSends, thrown, verCalls,
              rulesEnabled, journalEnabled, replySends>>

RecoveryRest == <<hostRest, monitorVars, notifier, eventFile, watchdog, hosts, heartbeat, heartbeatFile>>

TaskInHand == recovery.tasks[recovery.next]

\* The for loop of recover() moves on, or recover() returns.
NextTask(r) ==
  [r EXCEPT !.next = @ + 1, !.pc = IF r.next < Len(r.tasks) THEN "task" ELSE "done"]

\* recover() up to the loop: listActive() returns the files in directory order.
ListActive ==
  /\ recovery.pc = "idle"
  /\ \E order \in [1..Cardinality(DOMAIN activeDir) -> DOMAIN activeDir] :
       /\ \A a, b \in DOMAIN order : a # b => order[a] # order[b]
       /\ recovery' = [recovery EXCEPT
            !.tasks = [k \in DOMAIN order |-> activeDir[order[k]]],
            !.next = 1,
            !.pc = IF DOMAIN order = {} THEN "done" ELSE "task"]
  /\ UNCHANGED <<activeDir, completedDir, journal, RecoveryRest>>

\* recoverTask up to its await, or to its end when it sends nothing.
RecoverTask ==
  /\ recovery.pc = "task"
  /\ IF RecoveryText(TaskInHand) # NoText
       THEN /\ recovery' = [recovery EXCEPT
                 !.pc = "sending",
                 !.sent = Append(@, [task |-> TaskInHand.id,
                                     channelId |-> TaskInHand.channelId,
                                     conv |-> TaskInHand.conv,
                                     text |-> RecoveryText(TaskInHand)])]
            /\ UNCHANGED <<activeDir, completedDir, journal>>
       ELSE /\ journal' = JournalLog(journal, TaskInHand.conv, RecoveryJournal(TaskInHand))
            /\ activeDir' = Complete(Dirs, TaskInHand.id).active
            /\ completedDir' = Complete(Dirs, TaskInHand.id).completed
            /\ recovery' = NextTask(recovery)
  /\ UNCHANGED RecoveryRest

\* channel.sendMessage settles: recoverTask journals and completes, or its
\* catch block runs.
RecoverySendSettles(ok) ==
  /\ recovery.pc = "sending"
  /\ IF ok
       THEN /\ journal' = JournalLog(journal, TaskInHand.conv, RecoveryJournal(TaskInHand))
            /\ activeDir' = Complete(Dirs, TaskInHand.id).active
            /\ completedDir' = Complete(Dirs, TaskInHand.id).completed
       ELSE /\ activeDir' = ForceComplete(Dirs, TaskInHand.id).active
            /\ completedDir' = ForceComplete(Dirs, TaskInHand.id).completed
            /\ UNCHANGED journal
  /\ recovery' = NextTask(recovery)
  /\ UNCHANGED RecoveryRest

InitRecovery ==
  /\ InitHistoryVars /\ InitMutexVars /\ InitHostState /\ InitSuperVars
  /\ storeCfg = [maxSegmentSizeBytes |-> DefaultMaxSegmentSizeBytes,
                 maxSegments |-> DefaultMaxSegments]
  /\ maxRetries = 0 /\ maxIterations = DefaultMaxIterations
  /\ rulesEnabled = TRUE /\ journalEnabled = TRUE
  /\ activeDir \in OrphanedDirs

NextRecovery ==
  \/ ListActive
  \/ RecoverTask
  \/ \E ok \in BOOLEAN : RecoverySendSettles(ok)

SpecRecovery == InitRecovery /\ [][NextRecovery]_vars

\* The tasks recoverTask has returned for.
Recovered ==
  {k \in 1..Len(recovery.tasks) : k < recovery.next}

\* The texts sent for the k-th task, in order.
SentFor(k) ==
  SelectSeq(recovery.sent, LAMBDA m : m.task = recovery.tasks[k].id)

\* C22: every task recover() is through with has its file under completed/
\* and none under active/, and when recover() has returned, completed/ holds
\* exactly the files listActive() found and active/ is empty; no step of
\* recover() ends it with an exception.
RecoveryCompletesAll ==
  /\ recovery.pc \in {"idle", "task", "sending", "done"}
  /\ \A k \in Recovered :
       /\ recovery.tasks[k].id \in DOMAIN completedDir
       /\ recovery.tasks[k].id \notin DOMAIN activeDir
  /\ recovery.pc = "done"
     => /\ activeDir = NoFiles
        /\ DOMAIN completedDir = {recovery.tasks[k].id : k \in 1..Len(recovery.tasks)}
        /\ Cardinality(DOMAIN completedDir) = Len(recovery.tasks)

\* recover() returned after two orphaned tasks, the send of one of which failed.
RecoveryCompletesAllWitness ==
  /\ recovery.pc = "done" /\ Len(recovery.tasks) = MaxOrphans
  /\ \E id \in DOMAIN completedDir : completedDir[id].error = "recovery"
  /\ \E id \in DOMAIN completedDir : completedDir[id].phase = "completed"

\* Every message recovery sent went to the conversation and channel of its task.
SentToTheTask ==
  \A k \in 1..Len(recovery.tasks) : \A n \in DOMAIN SentFor(k) :
    /\ SentFor(k)[n].conv = recovery.tasks[k].conv
    /\ SentFor(k)[n].channelId = recovery.tasks[k].channelId

\* C23 as stated: the phase alone decides what is sent.
RecoveryDispatchAsStated ==
  /\ SentToTheTask
  /\ \A k \in Recovered :
       LET t == recovery.tasks[k] IN
         /\ t.phase \in EarlyPhases => SentFor(k) = <<[task |-> t.id, channelId |-> t.channelId,
                                            conv |-> t.conv, text |-> ResendRequest]>>
         /\ t.phase = "verifying" /\ t.pendingResponse # 0
            => SentFor(k) = <<[task |-> t.id, channelId |-> t.channelId, conv |-> t.conv,
                               text |-> Disclaimed(t.pendingResponse)]>>
         /\ t.phase = "responding" /\ t.pendingResponse # 0
            => SentFor(k) = <<[task |-> t.id, channelId |-> t.channelId, conv |-> t.conv,
                               text |-> Verbatim(t.pendingResponse)]>>
         /\ t.phase \in {"completed", "failed"} => SentFor(k) = <<>>

\* C23: for a task whose channel is registered the phase decides what is sent:
\* a resend request in the early phases, the pendingResponse behind the
\* disclaimer when verifying, the pendingResponse itself when responding,
\* nothing when completed or failed; without a pendingResponse verifying asks
\* to resend and responding sends nothing; for a task whose channel is not
\* registered nothing is sent. Each message goes to the task's conversation
\* on the task's channel.
RecoveryDispatch ==
  /\ SentToTheTask
  /\ \A k \in Recovered :
       LET t == recovery.tasks[k]
           texts == [n \in DOMAIN SentFor(k) |-> SentFor(k)[n].text]
       IN  IF t.channelId \notin RegisteredChannels THEN texts = <<>>
           ELSE /\ t.phase \in EarlyPhases => texts = <<ResendRequest>>
                /\ t.phase = "verifying"
                   => texts = IF t.pendingResponse # 0
                                THEN <<Disclaimed(t.pendingResponse)>>
                                ELSE <<ResendRequest>>
                /\ t.phase = "responding"
                   => texts = IF t.pendingResponse # 0
                                THEN <<Verbatim(t.pendingResponse)>>
                                ELSE <<>>
                /\ t.phase \in {"completed", "failed"} => texts = <<>>

\* recover() returned after a responding task got its response and a task of
\* an unregistered channel got nothing.
RecoveryDispatchWitness ==
  /\ recovery.pc = "done"
  /\ \E k \in Recovered :
       /\ recovery.tasks[k].phase = "responding"
       /\ Len(SentFor(k)) = 1 /\ SentFor(k)[1].text.kind = "response"
  /\ \E k \in Recovered :
       /\ recovery.tasks[k].phase = "verifying"
       /\ recovery.tasks[k].channelId \notin RegisteredChannels
       /\ SentFor(k) = <<>>

\* C24: a task file recovery has moved to completed/ has a task_failed entry
\* with recovery:true for its task in the journal of its conversation.
RecoveryJournalsEveryTask ==
  \A k \in 1..Len(recovery.tasks) :
    recovery.tasks[k].id \in DOMAIN completedDir
    => \E n \in DOMAIN journal[recovery.tasks[k].conv] :
         LET e == journal[recovery.tasks[k].conv][n] IN
           /\ e.event = "task_failed"
           /\ e.taskId = recovery.tasks[k].id
           /\ e.data[1] = "recovery"

\* ============================================================= SpecNotifier
\* One call of RecoveryNotifier.checkAndNotify(), made by a starting host.
\* A notify target is the string of the configuration, here its tokens.
NotifyTargets == {<<"web", ":", "c1">>, <<"old", ":", "c1">>, <<"webc1">>}

\* target.indexOf(':'), counted from 1; 0 when there is none.
SepIdx(target) ==
  IF \E k \in DOMAIN target : target[k] = ":"
    THEN CHOOSE k \in DOMAIN target :
           target[k] = ":" /\ \A j \in 1..(k - 1) : target[j] # ":"
    ELSE 0

TargetChannelId(target) == SubSeq(target, 1, SepIdx(target) - 1)

TargetConversationId(target) == SubSeq(target, SepIdx(target) + 1, Len(target))

\* The loop body up to the send: the target has a separator and its channel
\* is registered.
Sendable(target) ==
  /\ SepIdx(target) # 0
  /\ Len(TargetChannelId(target)) = 1
  /\ GetChannel(TargetChannelId(target)[1])

\* The first target at or after idx the loop sends to, Len + 1 when none.
RECURSIVE NextSendable(_, _)
NextSendable(targets, idx) ==
  IF idx > Len(targets) \/ Sendable(targets[idx]) THEN idx
  ELSE NextSendable(targets, idx + 1)

\* What the recovery-event file may hold when a host starts: nothing, text
\* JSON.parse rejects, the JSON text null, or an event the watchdog wrote.
EventFiles ==
  {NoEventFile, [kind |-> "unparseable"], [kind |-> "null"], [kind |-> "event", restart |-> 1]}

\* cleanup(): unlinkSync, errors swallowed.
Cleanup(file) == NoEventFile

NotifierRest == <<hostRest, monitorVars, activeDir, completedDir, journal, recovery, watchdog, hosts,
                  heartbeat, heartbeatFile>>

\* The for loop from target idx on, up to its next await or to the return.
NotifyFrom(idx) ==
  LET n == NextSendable(notifier.targets, idx) IN
    IF n > Len(notifier.targets)
      THEN /\ notifier' = [notifier EXCEPT !.pc = "returned", !.idx = n]
           /\ eventFile' = Cleanup(eventFile)
      ELSE /\ notifier' = [notifier EXCEPT
                !.pc = "sending", !.idx = n,
                !.sent = Append(@, [channelId |-> TargetChannelId(notifier.targets[n])[1],
                                    conv |-> TargetConversationId(notifier.targets[n])])]
           /\ UNCHANGED eventFile

\* checkAndNotify up to its first await, or to its end.
CheckAndNotify ==
  /\ notifier.pc = "idle"
  /\ IF Len(notifier.targets) = 0 \/ eventFile = NoEventFile
       THEN notifier' = [notifier EXCEPT !.pc = "returned"] /\ UNCHANGED eventFile
     ELSE IF eventFile.kind = "unparseable"
       THEN notifier' = [notifier EXCEPT !.pc = "returned"] /\ eventFile' = Cleanup(eventFile)
     ELSE IF eventFile.kind = "null"
       THEN notifier' = [notifier EXCEPT !.pc = "threw"] /\ UNCHANGED eventFile
     ELSE NotifyFrom(1)
  /\ UNCHANGED NotifierRest

\* channel.sendMessage settles, either way: the loop goes on.
NotifySendSettles(ok) ==
  /\ notifier.pc = "sending"
  /\ NotifyFrom(notifier.idx + 1)
  /\ UNCHANGED NotifierRest

InitNotifier ==
  /\ InitHistoryVars /\ InitMutexVars /\ InitHostState
  /\ storeCfg = [maxSegmentSizeBytes |-> DefaultMaxSegmentSizeBytes,
                 maxSegments |-> DefaultMaxSegments]
  /\ maxRetries = 0 /\ maxIterations = DefaultMaxIterations
  /\ rulesEnabled = TRUE /\ journalEnabled = TRUE
  /\ activeDir = NoFiles /\ recovery = RecoveryIdle
  /\ watchdog = None /\ hosts = <<>> /\ heartbeat = None
  /\ heartbeatFile = NoHeartbeatFile /\ InitMonitorIdle
  /\ eventFile \in EventFiles
  /\ \E targets \in UNION {[1..n -> NotifyTargets] : n \in 0..MaxTargets} :
       notifier = [NotifierIdle EXCEPT !.targets = targets,
                                       !.existed = (eventFile # NoEventFile)]

NextNotifier ==
  \/ CheckAndNotify
  \/ \E ok \in BOOLEAN : NotifySendSettles(ok)

SpecNotifier == InitNotifier /\ [][NextNotifier]_vars

\* C25: a recovery-event file that existed when checkAndNotify started does
\* not exist when checkAndNotify has returned.
EventFileConsumed ==
  notifier.pc = "returned" /\ notifier.existed => eventFile = NoEventFile

\* ============================================================= SpecWatchdog
\* The watchdog process, the host processes it spawns and the two files they
\* share. Time advances in ticks; a timer that is due fires before the next.
CheckIntervals == {1, 2, 4}

RestartWindows == {2, 4}

MaxRestartsConfigs == {1, 2}

\* The heartbeat a host writes, and the file between the truncation and the
\* write of writeFileSync.
CompleteHeartbeat(pid) == [kind |-> "complete", pid |-> pid, age |-> 0]

TruncatedHeartbeat == [kind |-> "empty", pid |-> 0, age |-> 0]

\* readHeartbeat(...).ok: the file exists and parses to a payload.
ReadHeartbeat(file) == file.kind = "complete"

IsProcessAlive(h, pid) == pid \in DOMAIN h /\ h[pid].state # "dead"

\* killProcess: SIGTERM, then SIGKILL within the wait that follows.
KillProcess(h, pid) ==
  [h EXCEPT ![pid] = [@ EXCEPT !.state = "dead", !.hbDue = FALSE, !.writing = FALSE]]

\* The first half of checkHealth: the verdict on the heartbeat file.
NeedsRestart(h, file) ==
  \/ ~ReadHeartbeat(file)
  \/ file.age > TimeoutTicks
  \/ ~IsProcessAlive(h, file.pid)

\* The while loop of recordAndCheck: entries older than the window are shifted
\* off the front.
RECURSIVE Pruned(_, _)
Pruned(ts, window) ==
  IF ts # <<>> /\ Head(ts) > window THEN Pruned(Tail(ts), window) ELSE ts

\* RestartTracker.recordAndCheck: the timestamps (as ages) after the push and
\* the pruning; the caller compares their number with maxRestarts.
RecordAndCheck(ts, window) == Pruned(Append(ts, 0), window)

\* The pid of the next spawn. A run that is not bounded reuses the last one.
NewPid(w) == IF w.spawned < MaxSpawns THEN w.spawned + 1 ELSE MaxSpawns

\* A spawned host: it boots for `boot` ticks; boot 0 is a host that never
\* comes up (alive, writing no heartbeat).
NewHost(boot) ==
  [state |-> IF boot = 0 THEN "hung" ELSE "booting", bootLeft |-> boot,
   hbDue |-> FALSE, writing |-> FALSE, saw |-> -1]

BootChoices(w) == IF w.down THEN {0} ELSE 1..MaxBoot

\* spawnHost.
SpawnHost(h, pid, boot) ==
  [g \in 1..pid |-> IF g = pid THEN NewHost(boot) ELSE h[g]]

\* The activation of checkHealth that is at `stage`, for `left` more ticks.
Activation(stage, left, pid) == [stage |-> stage, left |-> left, pid |-> pid]

WithoutActivation(checks, k) ==
  [j \in 1..(Len(checks) - 1) |-> IF j < k THEN checks[j] ELSE checks[j + 1]]

\* checkHealth from "Spawn a new host" to its wait: k = 0 is an activation
\* that has not waited yet.
SpawnStep(w, h, k, boot) ==
  LET act == Activation("grace", GraceTicks, NewPid(w)) IN
    /\ hosts' = SpawnHost(h, NewPid(w), boot)
    /\ watchdog' = [w EXCEPT
         !.hostProcess = NewPid(w), !.spawned = NewPid(w),
         !.checks = IF k = 0 THEN Append(@, act) ELSE [@ EXCEPT ![k] = act]]

\* checkHealth from "Also kill our tracked child process" to its next wait.
KillChildStep(w, h, k, boot) ==
  IF IsProcessAlive(h, w.hostProcess)
    THEN LET act == Activation("wait2", KillWaitTicks, 0) IN
      /\ hosts' = KillProcess(h, w.hostProcess)
      /\ watchdog' = [w EXCEPT
           !.checks = IF k = 0 THEN Append(@, act) ELSE [@ EXCEPT ![k] = act]]
    ELSE SpawnStep(w, h, k, boot)

\* checkHealth from "Kill existing process if still alive" to its next wait.
KillHeartbeatPidStep(w, h, boot) ==
  IF ReadHeartbeat(heartbeatFile) /\ IsProcessAlive(h, heartbeatFile.pid)
    THEN /\ hosts' = KillProcess(h, heartbeatFile.pid)
         /\ watchdog' = [w EXCEPT
              !.checks = Append(@, Activation("wait1", KillWaitTicks, 0))]
    ELSE KillChildStep(w, h, 0, boot)

\* The run is bounded and has spawns left beyond those of the activations that
\* are about to spawn, or is not bounded.
Bounded ==
  \/ watchdog.down
  \/ watchdog.spawned + Cardinality({k \in DOMAIN watchdog.checks :
                                       watchdog.checks[k].stage # "grace"}) < MaxSpawns

WatchdogRest == <<hostRest, monitorVars, activeDir, completedDir, journal, recovery, notifier, heartbeat>>

\* setInterval fires: checkHealth up to its first await, or to its return.
CheckHealth ==
  /\ watchdog.untilCheck = 0 /\ Bounded
  /\ LET w == [watchdog EXCEPT !.untilCheck = watchdog.interval] IN
       IF watchdog.paused
         THEN watchdog' = [w EXCEPT !.paused = FALSE] /\ UNCHANGED hosts
       ELSE IF ~NeedsRestart(hosts, heartbeatFile)
         THEN watchdog' = w /\ UNCHANGED hosts
       ELSE LET ts == RecordAndCheck(w.timestamps, w.window) IN
         IF Len(ts) > w.maxRestarts
           THEN watchdog' = [w EXCEPT !.timestamps = ts, !.paused = TRUE] /\ UNCHANGED hosts
           ELSE \E boot \in BootChoices(w) :
                  KillHeartbeatPidStep([w EXCEPT !.timestamps = ts], hosts, boot)
  /\ UNCHANGED <<eventFile, heartbeatFile, WatchdogRest>>

\* A wait of an activation of checkHealth is over: it goes on to its next
\* wait, or writes the recovery event and returns.
CheckContinues(k) ==
  /\ k \in DOMAIN watchdog.checks
  /\ watchdog.checks[k].left = 0
  /\ IF watchdog.checks[k].stage = "wait1"
       THEN /\ \E boot \in BootChoices(watchdog) : KillChildStep(watchdog, hosts, k, boot)
            /\ UNCHANGED eventFile
     ELSE IF watchdog.checks[k].stage = "wait2"
       THEN /\ \E boot \in BootChoices(watchdog) : SpawnStep(watchdog, hosts, k, boot)
            /\ UNCHANGED eventFile
     ELSE /\ eventFile' = [kind |-> "event", restart |-> watchdog.checks[k].pid]
          /\ watchdog' = [watchdog EXCEPT !.checks = WithoutActivation(@, k)]
          /\ UNCHANGED hosts
  /\ UNCHANGED <<heartbeatFile, WatchdogRest>>

\* The host has booted: main reaches heartbeat.start() and then
\* recoveryNotifier.checkAndNotify(), which consumes the event file it finds.
HostStarted(g) ==
  /\ g \in DOMAIN hosts
  /\ hosts[g].state = "booting" /\ hosts[g].bootLeft = 0
  /\ hosts' = [hosts EXCEPT ![g] = [@ EXCEPT
       !.state = "running", !.hbDue = TRUE,
       !.saw = IF eventFile.kind = "event" THEN eventFile.restart ELSE 0]]
  /\ eventFile' = Cleanup(eventFile)
  /\ UNCHANGED <<watchdog, heartbeatFile, WatchdogRest>>

\* writeHeartbeat, first half: writeFileSync opens the file, which truncates it.
HeartbeatTruncate(g) ==
  /\ g \in DOMAIN hosts
  /\ hosts[g].state = "running" /\ hosts[g].hbDue /\ ~hosts[g].writing
  /\ heartbeatFile' = TruncatedHeartbeat
  /\ hosts' = [hosts EXCEPT ![g] = [@ EXCEPT !.hbDue = FALSE, !.writing = TRUE]]
  /\ UNCHANGED <<watchdog, eventFile, WatchdogRest>>

\* writeHeartbeat, second half: the payload is written.
HeartbeatWrite(g) ==
  /\ g \in DOMAIN hosts
  /\ hosts[g].state = "running" /\ hosts[g].writing
  /\ heartbeatFile' = CompleteHeartbeat(g)
  /\ hosts' = [hosts EXCEPT ![g] = [@ EXCEPT !.writing = FALSE]]
  /\ UNCHANGED <<watchdog, eventFile, WatchdogRest>>

\* A running host hangs: it stays alive and writes no heartbeat any more.
HostHangs(g) ==
  /\ g \in DOMAIN hosts
  /\ hosts[g].state = "running" /\ ~hosts[g].writing
  /\ hosts' = [hosts EXCEPT ![g] = [@ EXCEPT !.state = "hung", !.hbDue = FALSE]]
  /\ UNCHANGED <<watchdog, eventFile, heartbeatFile, WatchdogRest>>

Min(a, b) == IF a < b THEN a ELSE b

\* No timer is due: time passes.
Tick ==
  /\ watchdog.untilCheck > 0 \/ ~Bounded
  /\ \A k \in DOMAIN watchdog.checks : watchdog.checks[k].left > 0
  /\ \A g \in DOMAIN hosts :
       /\ hosts[g].state = "booting" => hosts[g].bootLeft > 0
       /\ ~hosts[g].hbDue /\ ~hosts[g].writing
  /\ watchdog' = [watchdog EXCEPT
       !.untilCheck = IF @ > 0 THEN @ - 1 ELSE 0,
       !.checks = [k \in DOMAIN @ |-> [@[k] EXCEPT !.left = @ - 1]],
       !.timestamps = [k \in DOMAIN @ |-> Min(@[k] + 1, watchdog.window + 1)]]
  /\ hosts' = [g \in DOMAIN hosts |->
       IF hosts[g].state = "booting" THEN [hosts[g] EXCEPT !.bootLeft = @ - 1]
       ELSE IF hosts[g].state = "running" THEN [hosts[g] EXCEPT !.hbDue = TRUE]
       ELSE hosts[g]]
  /\ heartbeatFile' = [heartbeatFile EXCEPT
       !.age = IF heartbeatFile.kind = "complete" THEN Min(@ + 1, TimeoutTicks + 1) ELSE @]
  /\ UNCHANGED <<eventFile, WatchdogRest>>

\* main of the watchdog up to setInterval: the first host is spawned and the
\* check loop starts after the startup wait.
WatchdogStarted(interval, window, maxRestarts, down) ==
  [interval |-> interval, window |-> window, maxRestarts |-> maxRestarts, down |-> down,
   untilCheck |-> GraceTicks + interval, paused |-> FALSE, timestamps |-> <<>>,
   checks |-> <<>>, hostProcess |-> 1, spawned |-> 1]

InitWatchdogRest ==
  /\ InitHistoryVars /\ InitMutexVars /\ InitHostState
  /\ storeCfg = [maxSegmentSizeBytes |-> DefaultMaxSegmentSizeBytes,
                 maxSegments |-> DefaultMaxSegments]
  /\ maxRetries = 0 /\ maxIterations = DefaultMaxIterations
  /\ rulesEnabled = TRUE /\ journalEnabled = TRUE
  /\ activeDir = NoFiles /\ recovery = RecoveryIdle /\ notifier = NotifierIdle
  /\ heartbeat = None /\ InitMonitorIdle
  /\ eventFile = NoEventFile /\ heartbeatFile = NoHeartbeatFile

InitWatchdog ==
  /\ InitWatchdogRest
  /\ \E i \in CheckIntervals, win \in RestartWindows, m \in MaxRestartsConfigs :
       watchdog = WatchdogStarted(i, win, m, FALSE)
  /\ \E boot \in 1..MaxBoot : hosts = SpawnHost(<<>>, 1, boot)

HostSteps ==
  \E g \in 1..MaxSpawns :
    \/ HostStarted(g)
    \/ HeartbeatTruncate(g)
    \/ HeartbeatWrite(g)
    \/ HostHangs(g)

WatchdogSteps ==
  \/ CheckHealth
  \/ \E k \in 1..MaxSpawns : CheckContinues(k)
  \/ Tick

NextWatchdog == WatchdogSteps \/ HostSteps

SpecWatchdog == InitWatchdog /\ [][NextWatchdog]_vars

\* The host stays unhealthy: every host the watchdog spawns stays alive and
\* never writes a heartbeat. Timers that are due fire, and time passes.
InitWatchdogDown ==
  /\ InitWatchdogRest
  /\ \E i \in CheckIntervals, win \in RestartWindows, m \in MaxRestartsConfigs :
       watchdog = WatchdogStarted(i, win, m, TRUE)
  /\ hosts = SpawnHost(<<>>, 1, 0)

SpecWatchdogDown ==
  /\ InitWatchdogDown /\ [][WatchdogSteps]_vars
  /\ WF_vars(Tick) /\ WF_vars(CheckHealth)
  /\ \A k \in 1..MaxSpawns : WF_vars(CheckContinues(k))

\* C26: a host spawned by a restart finds, at its startup check, the recovery
\* event of the restart that spawned it.
RestartEventInPlace ==
  \A g \in DOMAIN hosts :
    g > 1 /\ hosts[g].saw # -1 => hosts[g].saw = g

\* An activation of checkHealth has spawned a host and its startup wait is
\* not over.
InGrace ==
  \E k \in DOMAIN watchdog.checks :
    watchdog.checks[k].stage = "grace" /\ watchdog.checks[k].left > 0

\* A step in which checkHealth reads the heartbeat and judges the host.
Assesses ==
  /\ watchdog.untilCheck = 0 /\ ~watchdog.paused
  /\ watchdog'.untilCheck = watchdog.interval

\* A step in which a host is killed or spawned.
KillsOrSpawns ==
  \/ Len(hosts') > Len(hosts)
  \/ \E g \in DOMAIN hosts : hosts[g].state # "dead" /\ hosts'[g].state = "dead"

\* C27: while the startup wait after a spawn is not over, no step assesses
\* the host, kills a host or spawns one.
QuietDuringGrace == [][InGrace => ~Assesses /\ ~KillsOrSpawns]_vars

\* A host was spawned in the last step.
JustSpawned ==
  \E k \in DOMAIN watchdog.checks :
    watchdog.checks[k].stage = "grace" /\ watchdog.checks[k].left = GraceTicks

\* C28: while the host stays unhealthy the watchdog goes on restarting it:
\* a pause for the rate limit is followed by another restart.
RateLimitTemporary == []<>JustSpawned

\* C29: while a running host is between the two halves of a heartbeat write,
\* no step of the watchdog counts a restart.
ConcurrentWriteHarmless ==
  [][(\E g \in DOMAIN hosts : hosts[g].state = "running" /\ hosts[g].writing)
       => watchdog'.timestamps = watchdog.timestamps]_vars

\* ============================================================ SpecHeartbeat
\* HeartbeatService over the statuses the channels report.
ChannelStatuses == {"disconnected", "connecting", "connected", "error"}

\* buildPayload: the status of the payload.
PayloadStatus(channels) ==
  LET allConnected ==
        Len(channels) > 0 /\ \A k \in DOMAIN channels : channels[k] = "connected"
      anyError == \E k \in DOMAIN channels : channels[k] = "error"
  IN  IF anyError THEN "error"
      ELSE IF ~allConnected /\ Len(channels) > 0 THEN "degraded"
      ELSE "ok"

BuildPayload(channels) == [status |-> PayloadStatus(channels), channels |-> channels]

\* The request handler of startHttpServer: the status code of GET /health.
StatusCode(payload) == IF payload.status = "ok" THEN 200 ELSE 503

NoPayload == [status |-> "none", channels |-> <<>>]

HeartbeatRest == <<hostRest, monitorVars, activeDir, completedDir, journal, recovery, notifier, eventFile,
                   watchdog, hosts, heartbeatFile>>

\* BaseChannel.setStatus on one of the channels.
SetStatus(k, status) ==
  /\ k \in DOMAIN heartbeat.channels
  /\ heartbeat.channels[k] # status
  /\ heartbeat' = [heartbeat EXCEPT !.channels[k] = status]
  /\ UNCHANGED HeartbeatRest

\* writeHeartbeat: the payload that goes to the file.
WriteHeartbeat ==
  /\ heartbeat' = [heartbeat EXCEPT !.written = BuildPayload(heartbeat.channels)]
  /\ UNCHANGED HeartbeatRest

\* GET /health is served.
ServeHealth ==
  /\ heartbeat' = [heartbeat EXCEPT
       !.served = [code |-> StatusCode(BuildPayload(heartbeat.channels)),
                   payload |-> BuildPayload(heartbeat.channels)]]
  /\ UNCHANGED HeartbeatRest

InitHeartbeat ==
  /\ InitHistoryVars /\ InitMutexVars /\ InitHostState
  /\ storeCfg = [maxSegmentSizeBytes |-> DefaultMaxSegmentSizeBytes,
                 maxSegments |-> DefaultMaxSegments]
  /\ maxRetries = 0 /\ maxIterations = DefaultMaxIterations
  /\ rulesEnabled = TRUE /\ journalEnabled = TRUE
  /\ activeDir = NoFiles /\ recovery = RecoveryIdle /\ notifier = NotifierIdle
  /\ eventFile = NoEventFile /\ heartbeatFile = NoHeartbeatFile
  /\ watchdog = None /\ hosts = <<>> /\ InitMonitorIdle
  /\ \E channels \in UNION {[1..n -> ChannelStatuses] : n \in 0..MaxChannels} :
       heartbeat = [channels |-> channels, written |-> NoPayload,
                    served |-> [code |-> 0, payload |-> NoPayload]]

NextHeartbeat ==
  \/ \E k \in 1..MaxChannels, status \in ChannelStatuses : SetStatus(k, status)
  \/ WriteHeartbeat
  \/ ServeHealth

SpecHeartbeat == InitHeartbeat /\ [][NextHeartbeat]_vars

\* The status the payload is to carry for the channel statuses.
StatusFor(channels) ==
  IF \E k \in DOMAIN channels : channels[k] = "error" THEN "error"
  ELSE IF \E k \in DOMAIN channels : channels[k] \notin {"connecting", "connected"}
    THEN "degraded"
  ELSE "ok"

\* C30: a payload written or served has status error if a channel of it is
\* error, else degraded if a channel that is not connecting is not connected,
\* else ok; and GET /health answers 200 exactly when the status served is ok.
HeartbeatStatusRule ==
  /\ heartbeat.written # NoPayload
     => heartbeat.written.status = StatusFor(heartbeat.written.channels)
  /\ heartbeat.served.payload # NoPayload
     => /\ heartbeat.served.payload.status = StatusFor(heartbeat.served.payload.channels)
        /\ heartbeat.served.code = 200 <=> heartbeat.served.payload.status = "ok"
        /\ heartbeat.served.code \in {200, 503}

\* ---------------------------------------------------------------------------
\* ChannelMonitor (src/health/channel-monitor.ts) and the channel it watches.
\* One channel; every await of checkAndRecover is a step of its own, and the
\* interval timer may fire while an earlier checkAndRecover is still awaiting.
\* ---------------------------------------------------------------------------
DefaultReconnectBaseDelayMs == 2000
DefaultReconnectMaxDelayMs == 120000
DefaultMaxReconnectAttempts == 10
MaxReconnects == 3   \* reconnect attempts the monitor starts
MaxCycles == 4       \* firings of the interval timer

ReconnectMaxDelays == {5000, DefaultReconnectMaxDelayMs}
MaxReconnectAttemptsConfigs == {1, 2, DefaultMaxReconnectAttempts}
ConnectOutcomes == {"connected", "error", "throws"}

MonitorRest == <<hostRest, activeDir, completedDir, journal, recovery, notifier, eventFile,
                 watchdog, hosts, heartbeat, heartbeatFile>>

RECURSIVE Pow2(_)
Pow2(n) == IF n = 0 THEN 1 ELSE 2 * Pow2(n - 1)

\* Mutant of Delay: the base delay whatever the failure count.
DelayFlat(cfg, failures) == Min(cfg.reconnectBaseDelayMs, cfg.reconnectMaxDelayMs)

\* The backoff sleep before an attempt made at the given failure count.
Delay(cfg, failures) ==
  Min(cfg.reconnectBaseDelayMs * Pow2(failures), cfg.reconnectMaxDelayMs)

\* A reconnect attempt: what the check cycle before its own did, the failure
\* count it read, its sleep, how far it has come, the channel status its
\* disconnect() call met, how its connect() ended and the failure count it
\* then stored.
NewAttempt(cfg, failures, prev) ==
  [prev |-> prev, stage |-> "sleep", failures |-> failures,
   delay |-> Delay(cfg, failures), statusAtDisconnect |-> None, outcome |-> None,
   stored |-> 0]

InFlight == {k \in DOMAIN monitor.attempts : monitor.attempts[k].stage # "done"}

\* The interval timer fires: checkAndRecover up to its first await.
CheckAndRecover ==
  /\ monitor.cycles < MaxCycles
  /\ LET failures == monitor.failureCount
         m == [monitor EXCEPT !.cycles = @ + 1] IN
       IF channel = "connected"
         THEN monitor' = [m EXCEPT !.failureCount = 0, !.last = "healthy"]
       ELSE IF channel = "connecting"
         THEN monitor' = [m EXCEPT !.last = "connecting"]
       ELSE IF failures >= monitor.cfg.maxReconnectAttempts
         THEN monitor' = [m EXCEPT !.failureCount = 0, !.last = "cooldown"]
       ELSE /\ Len(monitor.attempts) < MaxReconnects
            /\ monitor' = [m EXCEPT
                 !.attempts = Append(@, NewAttempt(monitor.cfg, failures, monitor.last)),
                 !.last = "attempt"]
  /\ UNCHANGED <<channel, MonitorRest>>

\* The backoff sleep of attempt k is over: channel.disconnect() is called.
SleepOver(k) ==
  /\ k \in DOMAIN monitor.attempts
  /\ monitor.attempts[k].stage = "sleep"
  /\ monitor' = [monitor EXCEPT !.attempts[k].stage = "disconnect",
                                !.attempts[k].statusAtDisconnect = channel]
  /\ UNCHANGED <<channel, MonitorRest>>

\* disconnect() of attempt k settles (a rejection is swallowed and leaves the
\* status) and connect() is called, which sets the status connecting.
DisconnectSettles(k, ok) ==
  /\ k \in DOMAIN monitor.attempts
  /\ monitor.attempts[k].stage = "disconnect"
  /\ monitor' = [monitor EXCEPT !.attempts[k].stage = "connect"]
  /\ channel' = "connecting"
  /\ UNCHANGED MonitorRest

\* connect() of attempt k settles: it resolves with the channel connected,
\* resolves with the channel in error, or throws.
ConnectSettles(k, outcome) ==
  /\ k \in DOMAIN monitor.attempts
  /\ monitor.attempts[k].stage = "connect"
  /\ LET stored == IF outcome = "throws" THEN monitor.attempts[k].failures + 1 ELSE 0 IN
       monitor' = [monitor EXCEPT !.attempts[k].stage = "done",
                                  !.attempts[k].outcome = outcome,
                                  !.attempts[k].stored = stored,
                                  !.failureCount = stored]
  /\ channel' = IF outcome = "throws" THEN channel ELSE outcome
  /\ UNCHANGED MonitorRest

\* The client's ready / login handler runs.
ChannelLogin ==
  /\ channel \in {"connecting", "disconnected"}
  /\ channel' = "connected"
  /\ UNCHANGED <<monitor, MonitorRest>>

\* The client's disconnected / logout handler runs.
ChannelLogout ==
  /\ channel \in {"connecting", "connected"}
  /\ channel' = "disconnected"
  /\ UNCHANGED <<monitor, MonitorRest>>

InitMonitor ==
  /\ InitHistoryVars /\ InitMutexVars /\ InitHostState
  /\ storeCfg = [maxSegmentSizeBytes |-> DefaultMaxSegmentSizeBytes,
                 maxSegments |-> DefaultMaxSegments]
  /\ maxRetries = 0 /\ maxIterations = DefaultMaxIterations
  /\ rulesEnabled = TRUE /\ journalEnabled = TRUE
  /\ activeDir = NoFiles /\ recovery = RecoveryIdle /\ notifier = NotifierIdle
  /\ eventFile = NoEventFile /\ heartbeatFile = NoHeartbeatFile
  /\ watchdog = None /\ hosts = <<>> /\ heartbeat = None
  /\ channel \in {"connected", "error"}
  /\ \E maxDelay \in ReconnectMaxDelays, maxAttempts \in MaxReconnectAttemptsConfigs :
       monitor = [cfg |-> [reconnectBaseDelayMs |-> DefaultReconnectBaseDelayMs,
                           reconnectMaxDelayMs |-> maxDelay,
                           maxReconnectAttempts |-> maxAttempts],
                  failureCount |-> 0, attempts |-> <<>>, cycles |-> 0, last |-> None]

NextMonitor ==
  \/ CheckAndRecover
  \/ \E k \in 1..MaxReconnects : SleepOver(k)
  \/ \E k \in 1..MaxReconnects, ok \in BOOLEAN : DisconnectSettles(k, ok)
  \/ \E k \in 1..MaxReconnects, outcome \in ConnectOutcomes : ConnectSettles(k, outcome)
  \/ ChannelLogin
  \/ ChannelLogout

SpecMonitor == InitMonitor /\ [][NextMonitor]_vars

\* C31: for a channel whose reconnects leave it unconnected, an attempt whose
\* connect() did not leave the channel connected stores its failure count plus
\* one (the counter is not reset by it), and the attempt of the next cycle is
\* made at one failure more and sleeps base * 2^f capped at maxDelay.
BackoffGrows ==
  \A k \in DOMAIN monitor.attempts :
    LET a == monitor.attempts[k] IN
      /\ a.stage = "done" /\ a.outcome # "connected" => a.stored = a.failures + 1
      /\ a.delay = Min(monitor.cfg.reconnectBaseDelayMs * Pow2(a.failures),
                       monitor.cfg.reconnectMaxDelayMs)
      /\ k > 1 /\ a.prev = "attempt" /\ monitor.attempts[k - 1].stage = "done"
           /\ monitor.attempts[k - 1].outcome # "connected"
         => a.failures = monitor.attempts[k - 1].failures + 1

\* A check cycle runs in the step.
CycleRuns == monitor'.cycles = monitor.cycles + 1

\* C32: the failure counter never exceeds maxReconnectAttempts; a check cycle
\* that meets the counter at maxReconnectAttempts (and the channel not
\* connecting) starts no attempt and resets the counter; and the cycle after
\* such a cooldown, when the channel is still neither connected nor connecting,
\* starts an attempt whose sleep is the base delay.
CooldownAfterMaxAttempts ==
  [][/\ monitor'.failureCount <= monitor.cfg.maxReconnectAttempts
     /\ CycleRuns /\ channel # "connecting"
          /\ monitor.failureCount >= monitor.cfg.maxReconnectAttempts
        => monitor'.attempts = monitor.attempts /\ monitor'.failureCount = 0
     /\ CycleRuns /\ monitor.last = "cooldown" /\ channel \notin {"connected", "connecting"}
          /\ Len(monitor.attempts) < MaxReconnects
        => /\ Len(monitor'.attempts) = Len(monitor.attempts) + 1
           /\ monitor'.attempts[Len(monitor'.attempts)].delay
                = monitor.cfg.reconnectBaseDelayMs]_vars

\* C37: at most one reconnect attempt of the channel is between the start of
\* its backoff sleep and the settling of its connect().
OneAttemptInFlight == Cardinality(InFlight) <= 1

\* C38: no attempt called disconnect() while the channel's status was
\* connected.
NoDisconnectOfConnected ==
  \A k \in DOMAIN monitor.attempts :
    monitor.attempts[k].statusAtDisconnect # "connected"

\* ---------------------------------------------------------------------------
\* The host dies at any point of its run and is started again: the restarted
\* host runs TaskRecoveryService.recover() on the task files the dead one left.
\* ---------------------------------------------------------------------------

\* channel.sendMessage has returned for the response of message i.
Delivered(i) ==
  \/ pc[i] = "resolved"
  \/ pc[i] \in {"finally", "done"} /\ taskStatus[i] = "completed"

\* The process dies. What it held in memory is gone; the files stay, and so
\* does what the channels have delivered. pc keeps, for each message received,
\* whether its response had been delivered.
HostCrashes ==
  /\ crashes = 0 /\ msgs # <<>>
  /\ crashes' = 1
  /\ pc' = [i \in MsgIds |->
              IF i \in Received
                THEN (IF Delivered(i) THEN "delivered" ELSE "interrupted")
                ELSE pc[i]]
  /\ microtasks' = <<>>
  /\ locks' = NoLocks
  /\ ticketNo' = [i \in MsgIds |-> 0]
  /\ response' = [i \in MsgIds |-> 0]
  /\ snapshot' = [i \in MsgIds |-> <<>>]
  /\ toolRounds' = [i \in MsgIds |-> 0]
  /\ attempt' = [i \in MsgIds |-> 0]
  /\ taskStatus' = [i \in MsgIds |-> None]
  /\ activeTasks' = {}
  /\ typingIntervals' = {}
  /\ lastResponses' = [c \in Convs |-> 0]
  /\ thrown' = [i \in MsgIds |-> None]
  /\ verCalls' = [i \in MsgIds |-> [verify |-> 0, regen |-> 0]]
  /\ UNCHANGED <<store, storeCfg, now, appends, mutexClientVars, loopVars, superVars, msgs,
                 maxRetries, activeDir, completedDir, journal, errVars, rulesEnabled,
                 journalEnabled>>

NextCrash ==
  \/ crashes = 0 /\ Next
  \/ HostCrashes
  \/ crashes = 1 /\ NextRecovery

SpecCrash == Init /\ [][NextCrash]_vars

\* C35: recovery sends nothing, neither a pendingResponse nor a resend
\* request, for a task whose response had been delivered before the host died.
RecoveryOnlyForUndelivered ==
  \A k \in DOMAIN recovery.sent : pc[recovery.sent[k].task.n] # "delivered"

SegmentFilesDistinct ==
  /\ HFilesDistinct
  /\ \A p, q \in 1..Len(HEntries) : p < q => HEntries[p].seq < HEntries[q].seq
  /\ \A j \in 1..Len(HIndex.segments) :
       HIndex.segments[j].file \in DOMAIN store[HConv].files

\* ---------------------------------------------------------------------------
\* The host under a fair event loop: a queued continuation is run, and every
\* LLM, tool, storage and channel call that is under way returns or throws.
\* ---------------------------------------------------------------------------
InitLive == Init /\ rulesEnabled = TRUE /\ maxRetries = 1

SpecLive == InitLive /\ [][Next]_vars /\ WF_vars(Handling)

====
